---- MODULE Spec2Model ----
(***************************************************************************)
(* Model of the blocking I/O engine of acl::CoreSocket                     *)
(* (src/Sockets/CoreSocket.cpp): noint_block_write, noint_block_read,      *)
(* noint_block_read_timeout, check_ready_to_read_timeout and noint_select, *)
(* driven by the read/write harnesses of src/test/acl_CoreSocket_Test.cpp  *)
(* over one stream connection.  The operating system is the environment:   *)
(* it splits transfers, interrupts calls (EINTR), reports hard errors and  *)
(* end of stream, and advances the clock.                                  *)
(*                                                                         *)
(* Times are integers in microseconds.  A struct timeval {sec, usec} is    *)
(* its total number of microseconds.                                       *)
(***************************************************************************)
EXTENDS Integers, Sequences, FiniteSets, TLC

\* ------------------------------------------------------------------ bounds
MaxLen == 3         \* largest number of bytes a harness transfers
MaxTimedLen == 2    \* largest length asked of noint_block_read_timeout
ChanCap == 2        \* bytes the kernel buffers between the two ends
MaxEintr == 1       \* interrupted system calls per behaviour
MaxTicks == 4       \* clock advances per behaviour
TickUsec == 500     \* microseconds per clock advance
MaxFd == 3          \* descriptors the process can have open at once
ReqPort == 258      \* the specific port a caller asks for (0x0102)
EphemeralPort == 49153  \* first of the ports the OS hands out for "any port"
MaxCloseBad == 2    \* close_socket(BAD_SOCKET) calls made by main
MaxByte == 1        \* largest value a byte of a converted pattern takes
MaxCodecOps == 2    \* conversions applied in a row to one pattern
NumThreads == 2     \* threads calling ACL_gettimeofday at the same time
MaxOffset == 2      \* offsets the two clocks can be found to have
MaxNameSize == 9    \* largest buffer size passed to the local-address calls
MaxCorkIo == 2      \* reads and writes made after cork / uncork calls
MaxIdLen == 2       \* largest len passed to a RandomIDGenerator function
RandRange == 16     \* values of the std::rand generator state

\* ------------------------------------------------------- program constants
PatternMod == 128       \* the test pattern: buf[i] = i % 128
UsecPerMsec == 1000     \* poll() takes milliseconds: static_cast<int>(timeout*1000)

BAD_SOCKET == -1        \* the invalid handle: socket()/accept() failure value
InvalidStatus == -100   \* close_socket / shutdown_socket on BAD_SOCKET
ByteRadix == 256        \* values of one byte (htons / ntohs swap two of them)
SizeofDouble == 8        \* sizeof(double) == sizeof(int64_t)
UShortRange == 65536    \* values of an unsigned short

NoRet == -2             \* "the call has not returned yet" (no C++ value)
Uninit == -3            \* an uninitialized struct timeval / buffer cell
SizeofMyIPchar == 100   \* char myIPchar[100] in udp_request_lob_packet

\* The durations a caller passes to noint_block_read_timeout: {0,0}, and
\* finite non-zero ones, one of them not a whole number of milliseconds.
Durations == {0, TickUsec, 3 * TickUsec}
\* A time no clock of a behaviour reaches.
Forever == (MaxTicks + 4) * TickUsec

Min(a, b) == IF a < b THEN a ELSE b

\* ------------------------------------------------- Timer.h timeval helpers
TimevalSum(a, b) == a + b
TimevalDiff(a, b) == a - b
TimevalGreater(a, b) == a > b

\* ---------------------------------------------------------------- the data
\* TestWriteToSocket fills buf[i] = i % 128.
Pattern(i) == i % PatternMod

\* The bytes buf[from .. from+n-1] of the writer's buffer, as a sequence.
Slice(from, n) == [j \in 1..n |-> Pattern(from + j - 1)]

\* Store the sequence s into buffer b at (0-based) offset off.
Store(b, off, s) ==
    [j \in 1..Len(b) |-> IF j > off /\ j <= off + Len(s) THEN s[j - off] ELSE b[j]]

\* Take the first n elements of s / drop them.
Take(s, n) == SubSeq(s, 1, n)
Drop(s, n) == SubSeq(s, n + 1, Len(s))

\* --------------------------- noint_block_write / noint_block_read loop body
\* The part of the do-while body after the OS call returned osret:
\*     sofar += ret;
\*     if ((ret == -1) && (socket_error == ACL_EINTR)) { ret = 1; sofar += 1; }
BlockLoopBodyNoRestore(sofar, osret, eintr) ==
    IF osret = -1 /\ eintr THEN [ret |-> 1, sofar |-> sofar + osret]
    ELSE [ret |-> osret, sofar |-> sofar + osret]

BlockLoopBodyNoRetry(sofar, osret, eintr) ==
    [ret |-> osret, sofar |-> IF osret = -1 /\ eintr THEN sofar ELSE sofar + osret]

BlockLoopBody(sofar, osret, eintr) ==
    IF osret = -1 /\ eintr THEN [ret |-> 1, sofar |-> (sofar + osret) + 1]
    ELSE [ret |-> osret, sofar |-> sofar + osret]

\* while ((ret > 0) && (static_cast<size_t>(sofar) < length))
BlockLoopAgain(ret, sofar, length) == ret > 0 /\ sofar < length

\* noint_block_write: if (ret == -1) return -1; if (ret == 0) return 0; return sofar;
WriteReturnShortCount(ret, sofar) ==
    IF ret = -1 THEN -1 ELSE sofar

WriteReturn(ret, sofar) ==
    IF ret = -1 THEN -1 ELSE IF ret = 0 THEN 0 ELSE sofar

\* noint_block_read: if (ret == -1) return -1; if (ret == 0) return -1; return sofar;
ReadReturnShortCount(ret, sofar) ==
    IF ret = -1 THEN -1 ELSE sofar

ReadReturn(ret, sofar) ==
    IF ret = -1 THEN -1 ELSE IF ret = 0 THEN -1 ELSE sofar


\* ------------------------------------------- noint_block_read_timeout parts
\* A size_t is kept as the integer congruent to it modulo 2^64 that lies in
\* (-2^31, 2^31): 0 + (-1) is SIZE_MAX, kept as -1.  Comparison is unsigned,
\* and static_cast<int> keeps the low 32 bits, which is the kept integer.
SizeAdd(s, n) == s + n
SizeLess(a, b) == a >= 0 /\ (b < 0 \/ a < b)
SizeToInt(s) == s

\* while ((ret > 0) && (sofar < length))
TimedLoopAgain(ret, sofarNow, length) == ret > 0 /\ SizeLess(sofarNow, length)

\* "if (ret == 0) { return -1; }" after the recv: TRUE when the call fails here.
RecvZeroIgnored(ret, sofarNow) == FALSE

RecvZeroFailsWhenEmpty(ret, sofarNow) == ret = 0 /\ sofarNow = 0

RecvZeroFails(ret, sofarNow) == ret = 0

\* After the loop: "#ifndef ACL_USE_WINSOCK_SOCKETS if (ret == -1) return -1;
\* #endif return static_cast<int>(sofar);"
TimedReturn(ws, ret, sofarNow) ==
    IF ~ws /\ ret = -1 THEN -1 ELSE SizeToInt(sofarNow)

\* Mutation of StopTimePassed: the stop time is never found to have passed.
StopTimeNeverPassed(nw, stp) == FALSE

\* if (TimevalGreater(now, stop)) return static_cast<int>(sofar);
StopTimePassed(nw, stp) == TimevalGreater(nw, stp)

\* timeout2 = TimevalDiff(stop, now): the wait left for the next poll.
RemainingWaitReset(tmo, stp, nw) == tmo

RemainingWait(tmo, stp, nw) == TimevalDiff(stp, nw)

\* noint_select after an interruption: usec_left = (stop.tv_sec - now.tv_sec)
\* * 1000000L + stop.tv_usec - now.tv_usec, split back into timeout2.
SelectRemainingReset(tmo, stp, nw) == tmo

SelectRemaining(tmo, stp, nw) == stp - nw

\* check_ready_to_read_timeout, POSIX: poll(&poll_set, 1,
\* static_cast<int>(timeout*1000)) with timeout in seconds: whole milliseconds.
\* Mutation of PollMsec: poll() is always told to wait without limit.
PollMsecNoLimit(toUsec) == -1

PollMsec(toUsec) ==
    IF toUsec >= 0 THEN toUsec \div UsecPerMsec
    ELSE -((-toUsec) \div UsecPerMsec)


\* ------------------------------------------------------ the OS socket table
\* One entry per descriptor number: its state ("free", "created", "bound",
\* "listening", "connected"), the socket occupying it (named by the call
\* that created it: "listen", "accepted", "client", "main"; "none" when
\* free), the local port (0: none) and the socket options in force.
Fds == 1..MaxFd
EphemeralPorts == {EphemeralPort, EphemeralPort + 1}
FreeFd == [state |-> "free", sock |-> "none", port |-> 0, opts |-> {}]

FreeFds(tbl) == {f \in Fds : tbl[f].state = "free"}
\* socket() and accept() return the lowest descriptor number not in use.
LowestFree(tbl) == CHOOSE f \in FreeFds(tbl) : \A g \in FreeFds(tbl) : f <= g
PortsInUse(tbl) == {tbl[f].port : f \in Fds \ FreeFds(tbl)} \ {0}
FreeEphemeral(tbl) == EphemeralPorts \ PortsInUse(tbl)

\* closeSocket(fd): close(2) / closesocket().
CloseFd(tbl, fd) == [tbl EXCEPT ![fd] = FreeFd]

\* htons / ntohs on a little-endian host: the two bytes change places.
\* The OS reads sin_port as a big-endian number, which is the same swap.
Htons(x) == (x % ByteRadix) * ByteRadix + (x \div ByteRadix)
NtohsIdentity(x) == x

Ntohs(x) == (x % ByteRadix) * ByteRadix + (x \div ByteRadix)
SinPortNumber(f) == (f % ByteRadix) * ByteRadix + (f \div ByteRadix)

\* static_cast<unsigned short>(*listen_portnum)
ToUShort(x) == x % UShortRange

\* ------------------------------------------------------------ open_socket
\* A failure return of open_socket after socket() succeeded:
\* closeSocket(sock); return BAD_SOCKET;  *portno is not written.
OpenSocketFailLeak(tbl, sock, portno, why) ==
    [sock |-> BAD_SOCKET, tbl |-> tbl, portno |-> portno, how |-> why]

OpenSocketFail(tbl, sock, portno, why) ==
    [sock |-> BAD_SOCKET, tbl |-> CloseFd(tbl, sock), portno |-> portno,
     how |-> why]

\* open_socket(type, portno, IPaddress, reuseAddr) run on the table tbl for
\* the caller who, with hasPortno telling whether portno is non-null and
\* fault naming the OS call that fails ("none": none does).  The result is
\* the handle returned, the table afterwards, the value left in *portno and
\* the way the call ended.
OpenSocket(tbl, who, hasPortno, portno, IPaddress, reuseAddr, fault) ==
    IF FreeFds(tbl) = {} \/ fault = "socket"
    THEN [sock |-> BAD_SOCKET, tbl |-> tbl, portno |-> portno, how |-> "socket"]
    ELSE
      LET sock == LowestFree(tbl)
          created == [tbl EXCEPT ![sock] =
                        [state |-> "created", sock |-> who, port |-> 0,
                         opts |-> IF reuseAddr /\ fault # "SO_REUSEADDR"
                                  THEN {"SO_REUSEADDR"} ELSE {}]]
          sin_port == Htons(IF hasPortno THEN portno ELSE 0)
          wanted == SinPortNumber(sin_port)
          bindFails == \/ fault = "bind"
                       \/ (wanted # 0 /\ wanted \in PortsInUse(tbl))
                       \/ (wanted = 0 /\ FreeEphemeral(tbl) = {})
          boundPort == IF wanted # 0 THEN wanted
                       ELSE CHOOSE q \in FreeEphemeral(tbl) : TRUE
          bound == [created EXCEPT ![sock].state = "bound",
                                   ![sock].port = boundPort]
      IN IF IPaddress = "unresolvable"
         THEN OpenSocketFail(created, sock, portno, "resolve")
         ELSE IF bindFails
         THEN OpenSocketFail(created, sock, portno, "bind")
         ELSE IF fault = "getsockname"
         THEN OpenSocketFail(bound, sock, portno, "getsockname")
         ELSE [sock |-> sock, tbl |-> bound,
               portno |-> IF hasPortno THEN Ntohs(Htons(boundPort)) ELSE portno,
               how |-> "ok"]

\* ------------------------------------------------- set_tcp_socket_options
\* The TCPOptions a caller can pass: negative keep* values mean "leave the
\* OS default".
AllOptions ==
    [keepCount : {-1, 3}, keepIdle : {-1, 1}, keepInterval : {-1, 1},
     userTimeout : {0}, keepAlive : BOOLEAN, ignoreSIGPIPE : BOOLEAN]

\* The setsockopt calls in the order the function makes them.
OptionOrder ==
    <<"TCP_KEEPCNT", "TCP_KEEPIDLE", "TCP_KEEPINTVL", "TCP_USER_TIMEOUT",
      "SO_KEEPALIVE", "TCP_NODELAY">>
OptionNames == {OptionOrder[i] : i \in 1..Len(OptionOrder)}

\* The condition under which each call is made.  TCP_USER_TIMEOUT is set
\* unconditionally but compiled out of the Winsock build; TCP_NODELAY is set
\* under keepAlive.
OptionWanted(ws, options, name) ==
    CASE name = "TCP_KEEPCNT" -> options.keepCount >= 0
      [] name = "TCP_KEEPIDLE" -> options.keepIdle >= 0
      [] name = "TCP_KEEPINTVL" -> options.keepInterval >= 0
      [] name = "TCP_USER_TIMEOUT" -> ~ws
      [] name = "SO_KEEPALIVE" -> options.keepAlive
      [] name = "TCP_NODELAY" -> options.keepAlive

\* One "if (wanted) { if (setsockopt(...) < 0) { perror; ret = false; } }":
\* fails is the set of options the OS rejects (for TCP_NODELAY also a failed
\* getprotobyname).
OptionStepStopAtFailure(st, wanted, name, fails) ==
    IF ~wanted \/ ~st.ret THEN st
    ELSE IF name \in fails
    THEN [st EXCEPT !.ret = FALSE, !.attempted = @ \cup {name}]
    ELSE [st EXCEPT !.attempted = @ \cup {name}, !.applied = @ \cup {name}]

OptionStep(st, wanted, name, fails) ==
    IF ~wanted THEN st
    ELSE IF name \in fails
    THEN [st EXCEPT !.ret = FALSE, !.attempted = @ \cup {name}]
    ELSE [st EXCEPT !.attempted = @ \cup {name}, !.applied = @ \cup {name}]

RECURSIVE OptionFold(_, _, _, _, _)
OptionFold(ws, options, fails, i, st) ==
    IF i > Len(OptionOrder) THEN st
    ELSE OptionFold(ws, options, fails, i + 1,
                    OptionStep(st, OptionWanted(ws, options, OptionOrder[i]),
                               OptionOrder[i], fails))

\* set_tcp_socket_options(s, options): the value returned, the setsockopt
\* calls attempted and the options now in force on s.
SetTcpSocketOptions(ws, options, fails) ==
    OptionFold(ws, options, fails, 1,
               [ret |-> TRUE, attempted |-> {}, applied |-> {}])

\* The table after the options that took effect were applied to s.
ApplyOptions(tbl, s, applied) ==
    [tbl EXCEPT ![s].opts = @ \cup applied]

\* ----------------------------------------------------------- close_socket
\* close_socket(sock) by a caller that holds sock as the handle of its
\* socket who: the value returned, the table afterwards, the number of OS
\* close calls issued (os) and of those that hit a descriptor not holding
\* who's open socket (bad).  close() on a free descriptor fails (EBADF).
CloseSocketNoGuard(tbl, sock, who) ==
    IF sock \in Fds /\ tbl[sock].state # "free"
    THEN [ret |-> 0, tbl |-> CloseFd(tbl, sock), os |-> 1,
          bad |-> IF tbl[sock].sock = who THEN 0 ELSE 1]
    ELSE [ret |-> -1, tbl |-> tbl, os |-> 1, bad |-> 1]

CloseSocket(tbl, sock, who) ==
    IF sock = BAD_SOCKET
    THEN [ret |-> InvalidStatus, tbl |-> tbl, os |-> 0, bad |-> 0]
    ELSE IF sock \in Fds /\ tbl[sock].state # "free"
    THEN [ret |-> 0, tbl |-> CloseFd(tbl, sock), os |-> 1,
          bad |-> IF tbl[sock].sock = who THEN 0 ELSE 1]
    ELSE [ret |-> -1, tbl |-> tbl, os |-> 1, bad |-> 1]

\* ------------------------------------------------------- get_a_TCP_socket
\* A failure return of get_a_TCP_socket after the socket was opened:
\* close_socket(ret) / closeSocket(ret); return BAD_SOCKET;  *listen_portnum
\* is not written.
GaFailLeak(tbl, sock, portnum, why) ==
    [ret |-> BAD_SOCKET, tbl |-> tbl, listen_portnum |-> portnum,
     how |-> why, sigign |-> FALSE]

GaFail(tbl, sock, portnum, why) ==
    [ret |-> BAD_SOCKET, tbl |-> CloseFd(tbl, sock), listen_portnum |-> portnum,
     how |-> why, sigign |-> FALSE]

\* get_a_TCP_socket(listen_portnum, NIC_IP, backlog, reuseAddr, options)
\* run on the table tbl: ptrNull tells whether listen_portnum is null,
\* portnum is *listen_portnum at the call.
GetATcpSocket(tbl, ws, ptrNull, portnum, nic, reuseAddr, hasOpts, options, fault) ==
    IF ptrNull
    THEN [ret |-> BAD_SOCKET, tbl |-> tbl, listen_portnum |-> portnum,
          how |-> "null_port", sigign |-> FALSE, port |-> Uninit]
    ELSE
      LET o == OpenSocket(tbl, "listen", TRUE, ToUShort(portnum), nic,
                          reuseAddr, fault)
          sto == SetTcpSocketOptions(ws, options, {fault})
          optd == IF hasOpts THEN ApplyOptions(o.tbl, o.sock, sto.applied)
                  ELSE o.tbl
          listening == [optd EXCEPT ![o.sock].state = "listening"]
          res == IF o.sock < 0
                 THEN [ret |-> BAD_SOCKET, tbl |-> o.tbl,
                       listen_portnum |-> portnum, how |-> o.how,
                       sigign |-> FALSE]
                 ELSE IF hasOpts /\ ~sto.ret
                 THEN GaFail(optd, o.sock, portnum, "options")
                 ELSE IF fault = "listen"
                 THEN GaFail(optd, o.sock, portnum, "listen")
                 ELSE IF fault = "getsockname2"
                 THEN GaFail(listening, o.sock, portnum, "getsockname2")
                 ELSE [ret |-> o.sock, tbl |-> listening,
                       listen_portnum |-> Ntohs(Htons(listening[o.sock].port)),
                       how |-> "ok", sigign |-> FALSE]
      IN [ret |-> res.ret, tbl |-> res.tbl,
          listen_portnum |-> res.listen_portnum, how |-> res.how,
          sigign |-> (o.sock >= 0 /\ hasOpts /\ options.ignoreSIGPIPE /\ ~ws),
          port |-> o.portno]

\* --------------------------------------------------------- connect_tcp_to
\* The listening sockets bound to port p.
Listeners(tbl, p) ==
    {f \in Fds : tbl[f].state = "listening" /\ tbl[f].port = p}

\* connect_tcp_to(addr, port, NICaddress = NULL, s, options) with s
\* non-null, run on the table tbl with pend connections waiting to be
\* accepted: the value returned, the value left in *s, the table and the
\* waiting connections afterwards, the way the call ended and whether it
\* opened a socket.
ConnectTcpTo(tbl, ws, pend, host, portArg, hasOptions, options, fault) ==
    LET o == OpenSocket(tbl, "client", FALSE, 0, "any", FALSE, fault)
        sto == SetTcpSocketOptions(ws, options, {fault})
        sigign == hasOptions /\ options.ignoreSIGPIPE /\ ~ws
        optd == IF hasOptions THEN ApplyOptions(o.tbl, o.sock, sto.applied)
                ELSE o.tbl
        \* client.sin_port = htons(port); connect(*s, &client, ...)
        sin_port == Htons(ToUShort(portArg))
        refused == \/ fault = "connect"
                   \/ Listeners(optd, SinPortNumber(sin_port)) = {}
    IN IF o.sock < 0
       THEN [ret |-> FALSE, s |-> o.sock, tbl |-> o.tbl, pending |-> pend,
             how |-> "open", opened |-> FALSE, sigign |-> FALSE]
       ELSE IF hasOptions /\ ~sto.ret
       THEN \* close_socket(*s); *s = BAD_SOCKET; return false;
            [ret |-> FALSE, s |-> BAD_SOCKET,
             tbl |-> CloseSocket(optd, o.sock, "client").tbl, pending |-> pend,
             how |-> "options", opened |-> TRUE, sigign |-> sigign]
       ELSE IF host = "unresolvable"
       THEN \* herror(...); return false;
            [ret |-> FALSE, s |-> o.sock, tbl |-> optd, pending |-> pend,
             how |-> "resolve", opened |-> TRUE, sigign |-> sigign]
       ELSE IF refused
       THEN \* closeSocket(*s); return false;
            [ret |-> FALSE, s |-> o.sock, tbl |-> CloseFd(optd, o.sock),
             pending |-> pend, how |-> "connect", opened |-> TRUE,
             sigign |-> sigign]
       ELSE [ret |-> TRUE, s |-> o.sock,
             tbl |-> [optd EXCEPT ![o.sock].state = "connected"],
             pending |-> pend + 1, how |-> "ok", opened |-> TRUE,
             sigign |-> sigign]

\* Connections waiting on a listening socket are dropped with it.
PendingAfter(tbl, pend) ==
    IF \E f \in Fds : tbl[f].state = "listening" THEN pend ELSE 0

\* The TCPOptions the harnesses pass when they pass any.
HarnessOptions ==
    {o \in AllOptions : o.keepIdle = -1 /\ o.keepInterval = -1
                          /\ o.ignoreSIGPIPE /\ (o.keepAlive <=> o.keepCount >= 0)}
DefaultOptions ==
    [keepCount |-> -1, keepIdle |-> -1, keepInterval |-> -1, userTimeout |-> 0,
     keepAlive |-> FALSE, ignoreSIGPIPE |-> FALSE]

\* ------------------------------------------------ hton / ntoh (the codec)
\* A 64-bit value is the sequence of its 8 bytes as they lie in memory
\* (byte 1 at the lowest address).
Hosts == {"big", "little", "mixed"}
Overloads == {"int64", "double"}
Bytes8 == [1..SizeofDouble -> 0..MaxByte]

\* static const int ACL_int_data_for_endian_test = 1, as it lies in memory.
ACL_int_data_for_endian_test(h) ==
    IF h = "big" THEN <<0, 0, 0, 1>> ELSE <<1, 0, 0, 0>>

\* ACL_big_endian = (ACL_char_data_for_endian_test[0] != 1)
ACL_big_endian(h) == ACL_int_data_for_endian_test(h)[1] # 1

\* defined(__arm__) && !defined(__ANDROID__) with
\* __FLOAT_WORD_ORDER != __BYTE_ORDER
FloatWordOrderDiffers(h) == h = "mixed"

\* Mutation of ByteSwap: each 4-byte word is reversed in place.
ByteSwapWithinWords(d) ==
    [i \in 1..SizeofDouble |->
        IF i <= SizeofDouble \div 2 THEN d[SizeofDouble \div 2 - i + 1]
        ELSE d[SizeofDouble + SizeofDouble \div 2 - i + 1]]

\* for (i = 0; i < sizeof(double); i++)
\*     pchSwapped[i] = pchOrig[sizeof(double) - i - 1];
ByteSwap(d) == [i \in 1..SizeofDouble |-> d[SizeofDouble - i + 1]]

\* scratch = pwSwapped[0]; pwSwapped[0] = pwSwapped[1]; pwSwapped[1] = scratch
WordSwap(d) ==
    [i \in 1..SizeofDouble |->
        IF i <= SizeofDouble \div 2 THEN d[i + SizeofDouble \div 2]
        ELSE d[i - SizeofDouble \div 2]]

\* double hton(double d)
HtonDouble(h, d) ==
    IF ~ACL_big_endian(h)
    THEN LET dSwapped == ByteSwap(d)
         IN  IF FloatWordOrderDiffers(h) THEN WordSwap(dSwapped) ELSE dSwapped
    ELSE d

\* Mutation of NtohDouble: the value is passed through.
NtohDoubleIdentity(h, d) == d

\* double ntoh(double d) { return hton(d); }
NtohDouble(h, d) == HtonDouble(h, d)

\* int64_t hton(int64_t d)
HtonInt64(h, d) ==
    IF ~ACL_big_endian(h)
    THEN LET dSwapped == ByteSwap(d)
         IN  IF FloatWordOrderDiffers(h) THEN WordSwap(dSwapped) ELSE dSwapped
    ELSE d

\* int64_t ntoh(int64_t d) { return hton(d); }
NtohInt64(h, d) == HtonInt64(h, d)

\* Overload resolution on the argument type.
\* ------------------------------------------- guards and direct calls
\* The descriptor socket()/accept() hands out first.
FirstFd == 1

\* noint_block_read: if (!length) return 0;
BlockReadSkips(length) == length = 0

\* Mutation of TimedReadSkips: a zero length is not tested for.
TimedReadNeverSkips(length) == FALSE

\* noint_block_read_timeout: if (!length) return 0;
TimedReadSkips(length) == length = 0

\* The descriptor table after shutdown_socket released the handle (a
\* mutation of ShutdownSocket).
ShutdownSocketReleases(tbl, shut, sock) ==
    IF sock = BAD_SOCKET
    THEN [ret |-> InvalidStatus, tbl |-> tbl, shut |-> shut, os |-> 0]
    ELSE IF sock \in Fds /\ tbl[sock].state # "free"
    THEN [ret |-> 0, tbl |-> CloseFd(tbl, sock), shut |-> shut \cup {sock},
          os |-> 1]
    ELSE [ret |-> -1, tbl |-> tbl, shut |-> shut, os |-> 1]

\* shutdown_socket(sock): -100 for BAD_SOCKET; otherwise the value of
\* shutdown(sock, SHUT_RDWR / SD_BOTH), which ends both directions of an open
\* connection and leaves the descriptor allocated.
ShutdownSocket(tbl, shut, sock) ==
    IF sock = BAD_SOCKET
    THEN [ret |-> InvalidStatus, tbl |-> tbl, shut |-> shut, os |-> 0]
    ELSE IF sock \in Fds /\ tbl[sock].state # "free"
    THEN [ret |-> 0, tbl |-> tbl, shut |-> shut \cup {sock}, os |-> 1]
    ELSE [ret |-> -1, tbl |-> tbl, shut |-> shut, os |-> 1]

\* A mutation of HandleAfterIo: a failed call closes the handle.
HandleAfterIoClosedOnError(tbl, sock, ret) ==
    IF ret = -1 /\ sock \in Fds THEN CloseFd(tbl, sock) ELSE tbl

\* The descriptor table when noint_block_read or
\* check_ready_to_read_timeout returns ret: no return path has a closeSocket,
\* shutdown or setsockopt.
HandleAfterIo(tbl, sock, ret) == tbl

\* poll(&poll_set, 1, msec) ends at the latest msec milliseconds after nw;
\* a negative msec means no limit.
PollDeadline(nw, msec) ==
    IF msec < 0 THEN Forever ELSE nw + msec * UsecPerMsec

\* The timeouts handed to check_ready_to_read_timeout.
ReadyTimeouts == Durations \cup {-TickUsec, -2 * TickUsec}

\* The functions called on the handle.
HandleCalls ==
    {"check_ready", "block_read", "timed_read", "block_write", "shutdown"}

\* ------------------------------------------------ address strings and buffers
\* A C string is the sequence of its characters; a caller's buffer is its
\* cells (UntouchedCell where nothing was written) and the number of bytes
\* written outside it.
NUL == "NUL"
UntouchedCell == "?"
DigitChars == <<"0", "1", "2", "3", "4", "5", "6", "7", "8", "9">>
NullString == [given |-> FALSE, s |-> <<>>]
CString(s) == [given |-> TRUE, s |-> s]
FreshBuffer(size) == [cells |-> [j \in 1..size |-> UntouchedCell], overrun |-> 0]

\* sprintf("%d") / sprintf("%u") of a non-negative number.
RECURSIVE FormatDecimal(_)
FormatDecimal(n) ==
    IF n < 10 THEN <<DigitChars[n + 1]>>
    ELSE FormatDecimal(n \div 10) \o <<DigitChars[(n % 10) + 1]>>

\* ntohl(sin_addr.s_addr) of the four bytes a, which are in network order.
NtohlAddr(a) ==
    ((a[1] * ByteRadix + a[2]) * ByteRadix + a[3]) * ByteRadix + a[4]

\* sprintf(myIPstring, "%d.%d.%d.%d", ntohl(s_addr) >> 24,
\*         (ntohl(s_addr) >> 16) & 0xff, (ntohl(s_addr) >> 8) & 0xff,
\*         ntohl(s_addr) & 0xff)
FormatSockAddr(a) ==
    LET v == NtohlAddr(a)
    IN FormatDecimal(v \div (ByteRadix * ByteRadix * ByteRadix)) \o <<".">>
         \o FormatDecimal((v \div (ByteRadix * ByteRadix)) % ByteRadix) \o <<".">>
         \o FormatDecimal((v \div ByteRadix) % ByteRadix) \o <<".">>
         \o FormatDecimal(v % ByteRadix)

\* sprintf(myIPstring, "%u.%u.%u.%u", h_addr_list[0][0], ..., [0][3])
FormatHostAddr(a) ==
    FormatDecimal(a[1]) \o <<".">> \o FormatDecimal(a[2]) \o <<".">>
      \o FormatDecimal(a[3]) \o <<".">> \o FormatDecimal(a[4])

\* The bytes written from the start of buffer b: those that fall outside its
\* cells are counted in overrun.
WriteBytes(b, bytes) ==
    [cells |-> [j \in 1..Len(b.cells) |->
                  IF j <= Len(bytes) THEN bytes[j] ELSE b.cells[j]],
     overrun |-> b.overrun + (IF Len(bytes) > Len(b.cells)
                              THEN Len(bytes) - Len(b.cells) ELSE 0)]

\* strcpy(dst, src): the characters and the terminating NUL.
StrCpy(b, s) == WriteBytes(b, s \o <<NUL>>)

\* strncpy(dst, src, n): exactly n bytes, the characters and then NULs.
StrNCpy(b, s, n) ==
    WriteBytes(b, [j \in 1..n |-> IF j <= Len(s) THEN s[j] ELSE NUL])

\* dst[n - 1] = '\0' with n unsigned: for n = 0 the index wraps to UINT_MAX.
PutNulAt(b, n) ==
    IF n >= 1 /\ n <= Len(b.cells)
    THEN [b EXCEPT !.cells[n] = NUL]
    ELSE [b EXCEPT !.overrun = b.overrun + 1]

\* The test that guards the copies: if (strlen(s) > maxlen) return -1.
NameTooLong(s, maxlen) == Len(s) > maxlen

\* ------------------------------------------------------------------ getmyIP
\* getmyIP(myIPchar, maxlen, NIC_IP, incoming_socket) for a buffer b (isNull:
\* the pointer is NULL), on the table tbl, with fault naming the library
\* call that fails and a the address the OS reports.
GetMyIP(isNull, b, maxlen, nic, incoming_socket, tbl, fault, a) ==
    IF isNull THEN [ret |-> -1, out |-> b, how |-> "null"]
    ELSE IF nic.given
    THEN IF NameTooLong(nic.s, maxlen)
         THEN [ret |-> -1, out |-> b, how |-> "too_long"]
         ELSE [ret |-> 0, out |-> PutNulAt(StrNCpy(b, nic.s, maxlen), maxlen),
               how |-> "nic"]
    ELSE IF incoming_socket # BAD_SOCKET
    THEN IF \/ fault = "getsockname"
            \/ incoming_socket \notin Fds
            \/ tbl[incoming_socket].state = "free"
         THEN [ret |-> -1, out |-> b, how |-> "getsockname"]
         ELSE IF NameTooLong(FormatSockAddr(a), maxlen)
         THEN [ret |-> -1, out |-> b, how |-> "too_long"]
         ELSE [ret |-> 0, out |-> StrCpy(b, FormatSockAddr(a)), how |-> "socket"]
    ELSE IF fault \in {"gethostname", "gethostbyname", "h_length"}
    THEN [ret |-> -1, out |-> b, how |-> fault]
    ELSE IF NameTooLong(FormatHostAddr(a), maxlen)
    THEN [ret |-> -1, out |-> b, how |-> "too_long"]
    ELSE [ret |-> 0, out |-> StrCpy(b, FormatHostAddr(a)), how |-> "host"]

\* --------------------------------------------------------- connect_udp_port
\* A failure return of connect_udp_port: closeSocket(udp_socket);
\* return BAD_SOCKET;
ConnectUdpFail(tbl, udp_socket, who) ==
    [sock |-> BAD_SOCKET,
     tbl |-> CloseSocketNoGuard(tbl, udp_socket, who).tbl,
     os |-> CloseSocketNoGuard(tbl, udp_socket, who).os,
     bad |-> CloseSocketNoGuard(tbl, udp_socket, who).bad]

\* connect_udp_port once open_udp_socket(NULL, NIC_IP) has returned o: the
\* name lookup, connect() and getsockname().  The handle is not tested, so
\* with BAD_SOCKET it is connect() that fails.
ConnectUdpAfterOpen(o, who, machineName, fault) ==
    IF machineName = "unresolvable" THEN ConnectUdpFail(o.tbl, o.sock, who)
    ELSE IF o.sock = BAD_SOCKET \/ fault = "connect"
    THEN ConnectUdpFail(o.tbl, o.sock, who)
    ELSE IF fault = "udp_getsockname" THEN ConnectUdpFail(o.tbl, o.sock, who)
    ELSE [sock |-> o.sock,
          tbl |-> [o.tbl EXCEPT ![o.sock].state = "connected"],
          os |-> 0, bad |-> 0]

\* connect_udp_port(machineName, remotePort, NIC_IP = NULL): the handle
\* returned, the table afterwards, the OS close calls issued.
ConnectUdpPort(tbl, who, machineName, fault) ==
    ConnectUdpAfterOpen(OpenSocket(tbl, who, FALSE, 0, "any", FALSE, fault),
                        who, machineName, fault)

\* ---------------------------------------------------- get_local_socket_name
InaddrAny == <<0, 0, 0, 0>>

\* A return of get_local_socket_name after connect_udp_port returned u:
\* closeSocket(udp_socket); return ret;
NameReturnLeak(u, ret, out, how, a) ==
    [ret |-> ret, out |-> out, tbl |-> u.tbl, os |-> u.os, bad |-> u.bad,
     how |-> how, addr |-> a]

NameReturn(u, ret, out, how, a) ==
    [ret |-> ret, out |-> out,
     tbl |-> CloseSocketNoGuard(u.tbl, u.sock, "throwaway").tbl,
     os |-> u.os + CloseSocketNoGuard(u.tbl, u.sock, "throwaway").os,
     bad |-> u.bad + CloseSocketNoGuard(u.tbl, u.sock, "throwaway").bad,
     how |-> how, addr |-> a]

\* get_local_socket_name from the sprintf on: myIPstring is the formatted
\* address s_addr, b the caller's buffer.
NameCopyOut(u, b, max_length, myIPstring, s_addr) ==
    IF NameTooLong(myIPstring, max_length)
    THEN NameReturn(u, -1, b,
                    IF u.sock = BAD_SOCKET THEN "no_association_too_long"
                    ELSE "too_long", s_addr)
    ELSE NameReturn(u, Len(myIPstring), StrCpy(b, myIPstring),
                    IF u.sock = BAD_SOCKET THEN "no_association" ELSE "ok",
                    s_addr)

\* get_local_socket_name once connect_udp_port has returned u, with a the
\* local address the OS gave the association.
NameAfterConnect(u, b, max_length, fault, a) ==
    IF u.sock = BAD_SOCKET
    THEN NameCopyOut(u, b, max_length, FormatSockAddr(InaddrAny), InaddrAny)
    ELSE IF fault = "name_getsockname"
    THEN NameReturn(u, -1, b, "getsockname", a)
    ELSE NameCopyOut(u, b, max_length, FormatSockAddr(a), a)

\* get_local_socket_name(local_host, max_length, remote_host)
GetLocalSocketName(tbl, b, max_length, remote_host, fault, a) ==
    NameAfterConnect(ConnectUdpPort(tbl, "throwaway", remote_host, fault),
                     b, max_length, fault, a)

\* --------------------------------------------------- udp_request_lob_packet
\* A failure return of udp_request_lob_packet: closeSocket(udp_sock);
\* return -1;
LobFail(tbl, udp_sock, how) ==
    [ret |-> -1, tbl |-> CloseSocketNoGuard(tbl, udp_sock, "udp").tbl,
     os |-> CloseSocketNoGuard(tbl, udp_sock, "udp").os,
     bad |-> CloseSocketNoGuard(tbl, udp_sock, "udp").bad, how |-> how]

\* udp_request_lob_packet(udp_sock, , , local_port, NIC_IP)
UdpRequestLobPacket(tbl, udp_sock, nic, fault, a) ==
    IF GetMyIP(FALSE, FreshBuffer(SizeofMyIPchar), SizeofMyIPchar, nic,
               udp_sock, tbl, fault, a).ret # 0
    THEN LobFail(tbl, udp_sock, "getmyIP")
    ELSE IF \/ fault = "send"
            \/ udp_sock \notin Fds
            \/ tbl[udp_sock].state = "free"
    THEN LobFail(tbl, udp_sock, "send")
    ELSE [ret |-> 0, tbl |-> tbl, os |-> 0, bad |-> 0, how |-> "sent"]

\* ------------------------------------------- cork_tcp_socket / uncork_tcp_socket
\* The builds with ACL_USE_WINSOCK_SOCKETS or __APPLE__ have no TCP_CORK and
\* switch TCP_NODELAY off and on instead.
CorkByNodelay(ws, mac) == ws \/ mac

\* Whether output on sock is being held back: TCP_CORK is set, or, in the
\* builds without it, TCP_NODELAY is off.
Corked(tbl, sock, byNodelay) ==
    IF byNodelay THEN "TCP_NODELAY" \notin tbl[sock].opts
    ELSE "TCP_CORK" \in tbl[sock].opts

\* setsockopt(sock, level, option, &value, sizeof(value)) on the table tbl:
\* it fails when the OS rejects it or sock is not an open socket.
SetSockOptFails(tbl, sock, fault) ==
    fault = "setsockopt" \/ sock \notin Fds \/ tbl[sock].state = "free"

SetOption(tbl, sock, option, on) ==
    [tbl EXCEPT ![sock].opts = IF on THEN @ \cup {option} ELSE @ \ {option}]

\* cork_tcp_socket(sock) / uncork_tcp_socket(sock) (cork: TRUE for the
\* first): the value returned, the table afterwards, the library and OS
\* calls made, and whether setsockopt was called and succeeded.
CorkCallClosesOnFailure(tbl, sock, byNodelay, cork, fault) ==
    IF sock = BAD_SOCKET
    THEN [ret |-> FALSE, tbl |-> tbl, calls |-> 0, set |-> FALSE]
    ELSE IF byNodelay /\ fault = "getprotobyname"
    THEN [ret |-> FALSE, tbl |-> tbl, calls |-> 1, set |-> FALSE]
    ELSE IF SetSockOptFails(tbl, sock, fault)
    THEN [ret |-> FALSE,
          tbl |-> IF sock \in Fds THEN CloseFd(tbl, sock) ELSE tbl,
          calls |-> IF byNodelay THEN 2 ELSE 1, set |-> FALSE]
    ELSE IF byNodelay
    THEN [ret |-> TRUE, tbl |-> SetOption(tbl, sock, "TCP_NODELAY", ~cork),
          calls |-> IF cork THEN 2 ELSE 3, set |-> TRUE]
    ELSE [ret |-> TRUE, tbl |-> SetOption(tbl, sock, "TCP_CORK", cork),
          calls |-> 1, set |-> TRUE]

CorkCall(tbl, sock, byNodelay, cork, fault) ==
    IF sock = BAD_SOCKET
    THEN [ret |-> FALSE, tbl |-> tbl, calls |-> 0, set |-> FALSE]
    ELSE IF byNodelay /\ fault = "getprotobyname"
    THEN [ret |-> FALSE, tbl |-> tbl, calls |-> 1, set |-> FALSE]
    ELSE IF SetSockOptFails(tbl, sock, fault)
    THEN [ret |-> FALSE, tbl |-> tbl,
          calls |-> IF byNodelay THEN 2 ELSE 1, set |-> FALSE]
    ELSE IF byNodelay
    THEN [ret |-> TRUE, tbl |-> SetOption(tbl, sock, "TCP_NODELAY", ~cork),
          calls |-> IF cork THEN 2 ELSE 3, set |-> TRUE]
    ELSE [ret |-> TRUE, tbl |-> SetOption(tbl, sock, "TCP_CORK", cork),
          calls |-> 1, set |-> TRUE]

CorkTcpSocket(tbl, sock, byNodelay, fault) ==
    CorkCall(tbl, sock, byNodelay, TRUE, fault)

UncorkTcpSocket(tbl, sock, byNodelay, fault) ==
    CorkCall(tbl, sock, byNodelay, FALSE, fault)

\* A read or write on sock can succeed: sock is a connected socket.
SocketUsable(tbl, sock) == sock \in Fds /\ tbl[sock].state = "connected"

\* ------------------------------------------------------- RandomIDGenerator
\* The alphabets of the three generators.
AlphanumericAlphabet ==
    <<"0", "1", "2", "3", "4", "5", "6", "7", "8", "9",
      "A", "B", "C", "D", "E", "F", "G", "H", "I", "J", "K", "L", "M",
      "N", "O", "P", "Q", "R", "S", "T", "U", "V", "W", "X", "Y", "Z",
      "a", "b", "c", "d", "e", "f", "g", "h", "i", "j", "k", "l", "m",
      "n", "o", "p", "q", "r", "s", "t", "u", "v", "w", "x", "y", "z">>
NumericAlphabet == <<"0", "1", "2", "3", "4", "5", "6", "7", "8", "9">>
HexadecimalAlphabet ==
    <<"0", "1", "2", "3", "4", "5", "6", "7", "8", "9",
      "a", "b", "c", "d", "e", "f">>
Generators == {"genAlphanumericString", "genNumericString", "genHexadecimalString"}
Alphabet(fn) ==
    IF fn = "genAlphanumericString" THEN AlphanumericAlphabet
    ELSE IF fn = "genNumericString" THEN NumericAlphabet
    ELSE HexadecimalAlphabet

\* std::srand / std::rand: one generator state for the whole process.
\* srand(s) sets it, rand() steps it and returns it (a linear congruential
\* generator with values below RandRange).
Srand(s) == s % RandRange
RandStep(x) == (5 * x + 3) % RandRange

\* std::hash<std::string>{}(seed): a fixed function of the string.
SeedStrings == {"", "cam0", "cam1"}
StdHash(seed) == IF seed = "cam0" THEN 7 ELSE IF seed = "cam1" THEN 12 ELSE 0

\* acl::getUsecTime() at the moment of a call.
UsecTimes == {1, 2}

\* The seeds a call can hand to srand: the hash of a non-empty seed given to
\* genHexadecimalString, the current time otherwise.
SeedValues(fn, seed) ==
    IF fn = "genHexadecimalString" /\ seed # "" THEN {StdHash(seed)}
    ELSE UsecTimes

\* The loop conditions: for (i = 0; i < len; i++) in genAlphanumericString,
\* while (str.size() <= len) in the other two.
DrawAgain(fn, size, len) ==
    IF fn = "genAlphanumericString" THEN size < len ELSE size <= len

\* alphabet[rand() % alphabet.size()] / alphabet.substr(rand() % length, 1)
DrawnChar(fn, randomInt) == Alphabet(fn)[(randomInt % Len(Alphabet(fn))) + 1]

\* --------------------------------------------------- ACL_gettimeofday
Threads == 1..NumThreads
\* acl::TimevalDiff(post_time, high_time): what the two clocks can differ by.
Offsets == 1..MaxOffset

Hton(k, h, d) == IF k = "double" THEN HtonDouble(h, d) ELSE HtonInt64(h, d)
Ntoh(k, h, d) == IF k = "double" THEN NtohDouble(h, d) ELSE NtohInt64(h, d)

VARIABLES
    winsock,     \* build variant: TRUE = ACL_USE_WINSOCK_SOCKETS
    \* TestWriteToSocket / noint_block_write
    wBytes, wChunk, wSofar, wResult, w_pc,
    bwLength, bwSofar, bwRet,
    \* the connection
    chan, peerClosed,
    \* the reading side: TestReadFromSocket / noint_block_read, or one call
    \* of noint_block_read_timeout
    mode, rBytes, rChunk, rSofar, rResult, r_pc, buf,
    brLength, brSofar, rRet,
    \* noint_block_read_timeout locals
    timeout, timeout2, usesTimeout2, start, stop, now, ready, to, sofar,
    \* check_ready_to_read_timeout / noint_select locals
    pollUntil, selTimeout, selTimeout2, selStop,
    \* the environment: the clock, the interruptions so far, and whether the
    \* OS has reported a hard error or a zero-byte write completion (it does
    \* so at most once per behaviour)
    clock, eintrs, hardFault,
    \* history: time spent blocked inside poll/select by the timed read, the
    \* way the timed read returned, and whether the peer had already sent
    \* everything it will ever send when the timed read was entered
    blocked, how, quietAtEntry,
    \* the OS: the descriptor table, the completed connections waiting on
    \* the listening socket, and the process-wide SIGPIPE disposition
    fds, pending, sigpipeIgnored,
    \* TestServerSide: get_a_TCP_socket, poll_for_accept, close_socket
    s_pc, NIC_IP, sHasOptions, sOptions, portPtrNull, listen_portnum, port,
    lSock, accept_sock, paTimeout, paRet, paHow, paPendingAtCall, gaHow,
    \* TestClientSide: connect_tcp_to, close_socket
    c_pc, addr, cHasOptions, cOptions, cSock, ctRet, ctHow, ctOpened,
    \* main: open_socket, set_tcp_socket_options, close_socket
    m_pc, mSock, stoOptions, stoFails, stoAttempted, stoApplied, stoRet,
    \* history of close_socket: calls made, the argument and result of the
    \* last one, OS close calls issued, and OS close calls that hit a
    \* descriptor not holding the caller's own open socket
    closeCalls, closeBadCalls, csArg, csRet, osCloses, badCloses,
    \* the codec: the host, the overload called, the pattern converted, its
    \* current value and the conversions applied to it so far
    host, overload, kIn, kVal, kOps,
    \* ACL_gettimeofday (Winsock build): the statics hr_offset_determined,
    \* hr_offset and hr_offset_mutex (0 = free, else the holder), each
    \* thread's position, the offset it computed and the offset it applied;
    \* history: offsets computed, stores made to hr_offset, whether an
    \* offset was computed without holding the mutex, and for each thread
    \* whether hr_offset had been stored when it applied it
    hr_offset_determined, hr_offset, hr_offset_mutex, g_pc, gDiff, gApplied,
    hrComputes, hrStores, hrOutsideLock, gAppliedStored,
    \* a thread that holds a connected socket and calls one function on it:
    \* the handle it passes, the function, its position, the value returned;
    \* history of check_ready_to_read_timeout: why the wait ended, whether
    \* the handle was readable then, and the time of the call
    infile, hCall, h_pc, hRet, hWhy, hReadable, hEntry,
    \* shutdown_socket: the descriptors shut down in both directions, the
    \* value returned, and the OS shutdown calls issued
    hShut, hShutRet, osShutdowns,
    \* whether the reading call in progress has issued an OS call
    osTouched,
    \* one call of get_local_socket_name, getmyIP or udp_request_lob_packet:
    \* the function, the thread's position, the caller's buffer and the size
    \* it states, whether the buffer pointer is NULL, the NIC_IP and
    \* remote_host arguments, the caller's own UDP socket, the value
    \* returned; history: the way the call ended and the address the OS
    \* reported
    nCall, n_pc, local_host, max_length, nBufNull, nicIP, remote_host,
    udp_sock, nRet, nHow, nAddr,
    \* a thread that holds a connected TCP socket and calls cork_tcp_socket
    \* and uncork_tcp_socket on it: whether the build is for __APPLE__, the
    \* thread's position, the handle, the value the last of the two calls
    \* returned, whether its setsockopt was made and succeeded, the library
    \* and OS calls it made, what cork_tcp_socket returned ("none": not
    \* called), the reads and writes made after the calls and the result of
    \* the last, the last operation, and the descriptor table before the
    \* last cork or uncork call
    apple, ck_pc, ckSock, ckRet, ckSet, ckCalls, ckCorkRet, ckIo, ckIoRet,
    ckLast, ckBefore,
    \* RandomIDGenerator: the state of the process-wide std::rand generator;
    \* for each thread its position, the generator it calls, the len and seed
    \* it passes, the string built so far, the strings its calls returned and
    \* the calls it has yet to make; history: whether no other thread seeded
    \* or drew while the thread was between its seeding and its return
    rngState, rn_pc, rnFn, rnLen, rnSeed, rnStr, rnResults, rnCallsLeft,
    rnAlone

wvars == <<wBytes, wChunk, wSofar, wResult, w_pc, bwLength, bwSofar, bwRet>>
rparams == <<mode, rBytes, rChunk, timeout>>
rblock == <<rSofar, rResult, brLength, brSofar>>
rtimed == <<timeout2, usesTimeout2, start, stop, now, ready, to, sofar>>
selvars == <<pollUntil, selTimeout, selTimeout2, selStop>>
hist == <<blocked, how, quietAtEntry>>
oss == <<fds, pending, sigpipeIgnored>>
srv == <<s_pc, NIC_IP, sHasOptions, sOptions, portPtrNull, listen_portnum, port,
         lSock, accept_sock, paTimeout, paRet, paHow, paPendingAtCall, gaHow>>
cli == <<c_pc, addr, cHasOptions, cOptions, cSock, ctRet, ctHow, ctOpened>>
mainv == <<m_pc, mSock, stoOptions, stoFails, stoAttempted, stoApplied, stoRet>>
closehist == <<closeCalls, closeBadCalls, csArg, csRet, osCloses, badCloses>>
lifecycle == <<oss, srv, cli, mainv, closehist>>
iostate == <<wvars, chan, peerClosed, rparams, rblock, r_pc, buf, rRet, rtimed,
             how, quietAtEntry>>
codec == <<host, overload, kIn, kVal, kOps>>
hrclock == <<hr_offset_determined, hr_offset, hr_offset_mutex, g_pc, gDiff,
             gApplied, hrComputes, hrStores, hrOutsideLock, gAppliedStored>>
callres == <<hRet, hWhy, hReadable, hEntry>>
shutv == <<hShut, hShutRet, osShutdowns>>
callv == <<infile, hCall, h_pc, callres, shutv>>
callenv == <<callv, osTouched>>
namev == <<nCall, n_pc, local_host, max_length, nBufNull, nicIP, remote_host,
           udp_sock, nRet, nHow, nAddr>>
corkv == <<apple, ck_pc, ckSock, ckRet, ckSet, ckCalls, ckCorkRet, ckIo, ckIoRet,
           ckLast, ckBefore>>
randv == <<rngState, rn_pc, rnFn, rnLen, rnSeed, rnStr, rnResults, rnCallsLeft,
           rnAlone>>
notname == <<corkv, randv>>
notcork == <<namev, randv>>
notrand == <<namev, corkv>>
helpers == <<namev, corkv, randv>>
env0 == <<winsock, codec, hrclock, helpers>>
env == <<env0, callenv>>
vars == <<env, wvars, chan, peerClosed, rparams, rblock, r_pc, buf, rRet,
          rtimed, selvars, clock, eintrs, hardFault, hist, lifecycle>>

\* ---------------------------------------------------------------- Init
InitAll ==
    /\ winsock \in BOOLEAN
    /\ wBytes \in 0..MaxLen
    /\ wChunk \in 1..MaxLen
    /\ wChunk <= wBytes \/ wChunk = 1
    /\ wSofar = 0 /\ wResult = NoRet /\ w_pc = "loop"
    /\ bwLength = 0 /\ bwSofar = 0 /\ bwRet = NoRet
    /\ chan = <<>> /\ peerClosed = FALSE
    /\ mode \in {"block", "timed"}
    /\ rBytes \in 1..MaxLen
    /\ rChunk \in 1..MaxLen
    /\ rChunk <= rBytes
    /\ mode = "timed" => (rChunk = rBytes /\ rBytes <= MaxTimedLen
                           /\ wBytes <= MaxTimedLen)
    /\ timeout \in Durations
    /\ mode = "block" => timeout = 0
    /\ rSofar = 0 /\ rResult = NoRet
    /\ r_pc = IF mode = "block" THEN "loop" ELSE "enter"
    /\ buf = [j \in 1..rBytes |-> Uninit]
    /\ brLength = 0 /\ brSofar = 0 /\ rRet = NoRet
    /\ timeout2 = Uninit /\ usesTimeout2 = FALSE
    /\ start = Uninit /\ stop = Uninit /\ now = Uninit
    /\ ready = 0 /\ to = 0 /\ sofar = 0
    /\ pollUntil = 0 /\ selTimeout = 0 /\ selTimeout2 = 0 /\ selStop = 0
    /\ clock = 0 /\ eintrs = 0 /\ hardFault = FALSE
    /\ blocked = 0 /\ how = "none" /\ quietAtEntry = FALSE

\* ------------------------------------------------------- the writing side
\* TestWriteToSocket, loop head: while (remaining > 0) { nextChunk = ...;
\* noint_block_write(s, &buf[sofar], nextChunk) ... }  result = sofar.
W_Chunk ==
    /\ w_pc = "loop"
    /\ IF wBytes - wSofar > 0
       THEN /\ bwLength' = Min(wChunk, wBytes - wSofar)
            /\ bwSofar' = 0
            /\ w_pc' = "write"
            /\ UNCHANGED wResult
       ELSE /\ wResult' = wSofar
            /\ w_pc' = "done"
            /\ UNCHANGED <<bwLength, bwSofar>>
    /\ UNCHANGED <<env, lifecycle, wBytes, wChunk, wSofar, bwRet, chan, peerClosed,
                   rparams, rblock, r_pc, buf, rRet, rtimed, selvars,
                   clock, eintrs, hardFault, hist>>

\* What write()/send() of n > 0 bytes can report: a partial or full
\* transfer as far as the kernel buffer has room; an interruption by a
\* signal while it waits for room (before any byte was taken); a hard
\* error, or a zero-byte completion.  Each is <<ret, errno is EINTR>>.
WriteOutcomes(n) ==
    {<<k, FALSE>> : k \in 1..Min(n, ChanCap - Len(chan))}
      \cup (IF Len(chan) = ChanCap /\ eintrs < MaxEintr
            THEN {<<-1, TRUE>>} ELSE {})
      \cup (IF ~hardFault THEN {<<-1, FALSE>>, <<0, FALSE>>} ELSE {})

\* One iteration of the do-while of noint_block_write, the return after the
\* loop, and the harness's test of the returned value.
W_Write ==
    /\ w_pc = "write"
    /\ \E o \in WriteOutcomes(bwLength - bwSofar) :
         LET osret == o[1]
             body == BlockLoopBody(bwSofar, osret, o[2])
             ret == WriteReturn(body.ret, body.sofar)
         IN /\ chan' = IF osret > 0
                        THEN chan \o Slice(wSofar + bwSofar, osret)
                        ELSE chan
            /\ eintrs' = IF o = <<-1, TRUE>> THEN eintrs + 1 ELSE eintrs
            /\ hardFault' = (hardFault \/ (osret <= 0 /\ ~o[2]))
            /\ bwSofar' = body.sofar
            /\ IF BlockLoopAgain(body.ret, body.sofar, bwLength)
               THEN UNCHANGED <<bwRet, wSofar, wResult, w_pc>>
               ELSE /\ bwRet' = ret
                    /\ IF ret # bwLength
                       THEN /\ wResult' = wSofar
                            /\ w_pc' = "done"
                            /\ UNCHANGED wSofar
                       ELSE /\ wSofar' = wSofar + bwLength
                            /\ w_pc' = "loop"
                            /\ UNCHANGED wResult
    /\ UNCHANGED <<env, lifecycle, wBytes, wChunk, bwLength, peerClosed,
                   rparams, rblock, r_pc, buf, rRet, rtimed, selvars,
                   clock, hist>>

\* The peer closes its end once its harness has returned (close_socket).
W_Close ==
    /\ w_pc = "done"
    /\ peerClosed' = TRUE
    /\ w_pc' = "closed"
    /\ UNCHANGED <<env, lifecycle, wBytes, wChunk, wSofar, wResult, bwLength, bwSofar,
                   bwRet, chan, rparams, rblock, r_pc, buf, rRet, rtimed,
                   selvars, clock, eintrs, hardFault, hist>>

\* ------------------------------------------- the reading side, blocking
\* What read()/recv() of n > 0 bytes can report: some or all of the bytes
\* that have arrived, end of stream once the peer has closed and everything
\* was read, an interruption by a signal while it waits for bytes, or a
\* hard error.  With nothing to report the call blocks.
ReadOutcomes(n) ==
    {<<k, FALSE>> : k \in 1..Min(n, Len(chan))}
      \cup (IF chan = <<>> /\ peerClosed THEN {<<0, FALSE>>} ELSE {})
      \cup (IF chan = <<>> /\ ~peerClosed /\ eintrs < MaxEintr
            THEN {<<-1, TRUE>>} ELSE {})
      \cup (IF ~hardFault THEN {<<-1, FALSE>>} ELSE {})

\* TestReadFromSocket, loop head, and the check of the values after it.
R_Chunk ==
    /\ mode = "block" /\ r_pc = "loop"
    /\ IF rBytes - rSofar > 0
       THEN /\ brLength' = Min(rChunk, rBytes - rSofar)
            /\ brSofar' = 0
            /\ r_pc' = "read"
            /\ UNCHANGED rResult
       ELSE /\ rResult' = IF \E i \in 0..(rBytes - 1) : buf[i + 1] # Pattern(i)
                          THEN -1 ELSE rSofar
            /\ r_pc' = "done"
            /\ UNCHANGED <<brLength, brSofar>>
    /\ UNCHANGED <<env, lifecycle, wvars, chan, peerClosed, rparams, rSofar, buf, rRet,
                   rtimed, selvars, clock, eintrs, hardFault, hist>>

\* One iteration of the do-while of noint_block_read (entered with
\* length > 0, so the "if (!length) return 0" guard is passed), the return
\* after the loop, and the harness's test of the returned value.
R_Read ==
    /\ mode = "block" /\ r_pc = "read"
    /\ osTouched' = TRUE
    /\ \E o \in ReadOutcomes(brLength - brSofar) :
         LET osret == o[1]
             body == BlockLoopBody(brSofar, osret, o[2])
             ret == ReadReturn(body.ret, body.sofar)
         IN /\ buf' = IF osret > 0
                       THEN Store(buf, rSofar + brSofar, Take(chan, osret))
                       ELSE buf
            /\ chan' = IF osret > 0 THEN Drop(chan, osret) ELSE chan
            /\ eintrs' = IF o = <<-1, TRUE>> THEN eintrs + 1 ELSE eintrs
            /\ hardFault' = (hardFault \/ o = <<-1, FALSE>>)
            /\ brSofar' = body.sofar
            /\ how' = IF osret = 0 THEN "eof" ELSE how
            /\ IF BlockLoopAgain(body.ret, body.sofar, brLength)
               THEN UNCHANGED <<rRet, rSofar, rResult, r_pc>>
               ELSE /\ rRet' = ret
                    /\ IF ret # brLength
                       THEN /\ rResult' = rSofar
                            /\ r_pc' = "done"
                            /\ UNCHANGED rSofar
                       ELSE /\ rSofar' = rSofar + brLength
                            /\ r_pc' = "loop"
                            /\ UNCHANGED rResult
    /\ UNCHANGED <<env0, callv, lifecycle, wvars, peerClosed, rparams, brLength, rtimed,
                   selvars, clock, blocked, quietAtEntry>>

\* --------------------------------------- the reading side, with a deadline
\* noint_block_read_timeout up to the loop: -1 for BAD_SOCKET, then 0 for a
\* zero length; otherwise a non-zero duration is copied to timeout2 and the
\* stop time is computed, a zero one is used in place and leaves start and
\* stop uninitialized.
RT_Enter ==
    /\ mode = "timed" /\ r_pc = "enter"
    /\ IF infile = BAD_SOCKET
       THEN /\ rRet' = -1 /\ r_pc' = "done" /\ how' = "bad_socket"
            /\ UNCHANGED <<timeout2, usesTimeout2, start, stop, sofar,
                           quietAtEntry>>
       ELSE IF TimedReadSkips(rBytes)
       THEN /\ rRet' = 0 /\ r_pc' = "done" /\ how' = "zero_length"
            /\ UNCHANGED <<timeout2, usesTimeout2, start, stop, sofar,
                           quietAtEntry>>
       ELSE /\ IF timeout # 0
               THEN /\ timeout2' = timeout
                    /\ usesTimeout2' = TRUE
                    /\ start' = clock
                    /\ stop' = TimevalSum(clock, timeout)
               ELSE /\ usesTimeout2' = FALSE
                    /\ UNCHANGED <<timeout2, start, stop>>
            /\ sofar' = 0
            /\ r_pc' = "poll"
            /\ quietAtEntry' = (w_pc \in {"done", "closed"} /\ wResult = wBytes
                                  /\ Len(chan) = wBytes)
            /\ UNCHANGED <<rRet, how>>
    /\ UNCHANGED <<env, lifecycle, wvars, chan, peerClosed, rparams, rblock, buf,
                   now, ready, to, selvars, clock, eintrs, hardFault, blocked>>

\* Loop head: to = timeout2ptr->tv_sec + timeout2ptr->tv_usec * 1e-6, and
\* the call of check_ready_to_read_timeout(infile, to) up to the point where
\* poll() (POSIX) or select() inside noint_select (Winsock) starts to wait.
RT_Poll ==
    /\ mode = "timed" /\ r_pc = "poll"
    /\ LET t == IF usesTimeout2 THEN timeout2 ELSE timeout
       IN /\ to' = t
          /\ IF winsock
             THEN /\ selTimeout' = t
                  /\ selTimeout2' = t
                  /\ selStop' = IF t # 0 THEN TimevalSum(clock, t) ELSE 0
                  /\ pollUntil' = clock + t
             ELSE /\ pollUntil' = PollDeadline(clock, PollMsec(t))
                  /\ UNCHANGED <<selTimeout, selTimeout2, selStop>>
    /\ r_pc' = "inpoll"
    /\ osTouched' = TRUE
    /\ UNCHANGED <<env0, callv, lifecycle, wvars, chan, peerClosed, rparams, rblock, buf, rRet,
                   timeout2, usesTimeout2, start, stop, now, ready, sofar,
                   clock, eintrs, hardFault, hist>>

\* What the wait can report to check_ready_to_read_timeout, as <<value,
\* errno is EINTR>>: 1 readable (bytes arrived, or end of stream); -1 for an
\* error, hang-up or exceptional condition; 0 once the wait has run out with
\* nothing to report; <<-1, TRUE>> for a poll()/select() that found nothing
\* to report and was interrupted by a signal.
WaitOutcomes ==
    (IF chan # <<>> \/ peerClosed THEN {<<1, FALSE>>} ELSE {})
      \cup (IF ~winsock /\ peerClosed THEN {<<-1, FALSE>>} ELSE {})
      \cup (IF ~hardFault THEN {<<-1, FALSE>>} ELSE {})
      \cup (IF chan = <<>> /\ ~peerClosed /\ clock >= pollUntil
            THEN {<<0, FALSE>>} ELSE {})
      \cup (IF chan = <<>> /\ ~peerClosed /\ eintrs < MaxEintr
            THEN {<<-1, TRUE>>} ELSE {})

\* noint_select goes round its loop again: the select() was interrupted and
\* either the timeout is zero or the stop time has not passed.  (POSIX calls
\* poll() once.)
SelectAgain(o) ==
    /\ winsock
    /\ o = <<-1, TRUE>>
    /\ ~(selTimeout # 0 /\ TimevalGreater(clock, selStop))

\* The wait ends.  check_ready_to_read_timeout returns the outcome's value
\* (-1 for an interruption that is not retried).  Then, in
\* noint_block_read_timeout:
\*   if (ready == -1) return -1;
\*   if (!ready && (to == 0)) return sofar;
RT_PollReturnWith(o) ==
    /\ mode = "timed" /\ r_pc = "inpoll"
    /\ o \in WaitOutcomes
    /\   LET r == o[1]
         IN /\ eintrs' = IF o[2] THEN eintrs + 1 ELSE eintrs
            /\ hardFault' = (hardFault \/ (o = <<-1, FALSE>>
                                             /\ ~(~winsock /\ peerClosed)))
            /\ IF SelectAgain(o)
               THEN /\ selTimeout2' =
                         IF selTimeout # 0
                         THEN SelectRemaining(selTimeout, selStop, clock)
                         ELSE selTimeout2
                    /\ pollUntil' = clock + selTimeout2'
                    /\ UNCHANGED <<ready, rRet, r_pc, how>>
               ELSE /\ UNCHANGED <<selTimeout2, pollUntil>>
                    /\ ready' = r
                    /\ IF r = -1
                       THEN rRet' = -1 /\ r_pc' = "done" /\ how' = "bad_poll"
                       ELSE IF r = 0 /\ to = 0
                       THEN /\ rRet' = SizeToInt(sofar)
                            /\ r_pc' = "done" /\ how' = "zero_poll"
                       ELSE /\ r_pc' = "check"
                            /\ UNCHANGED <<rRet, how>>
    /\ UNCHANGED <<env, lifecycle, wvars, chan, peerClosed, rparams, rblock, buf,
                   timeout2, usesTimeout2, start, stop, now, to, sofar,
                   selTimeout, selStop, clock, blocked, quietAtEntry>>

\* The wait ends with one of the outcomes it can have.
RT_PollReturn == \E o \in WaitOutcomes : RT_PollReturnWith(o)

\* "See what time it is now and how long we have to go", then the
\* not-ready branch.  With a zero duration stop was never set: the
\* comparison reads an uninitialized value and can go either way.  In the
\* not-ready branch "ret = 0; continue;" jumps to the do-while condition
\* (ret > 0) && (sofar < length), which is then false: the loop ends and
\* the function returns sofar.
RT_Check ==
    /\ mode = "timed" /\ r_pc = "check"
    /\ now' = clock
    /\ \E expired \in BOOLEAN :
         /\ usesTimeout2 => (expired <=> StopTimePassed(clock, stop))
         /\ IF expired
            THEN /\ rRet' = SizeToInt(sofar)
                 /\ r_pc' = "done" /\ how' = "expired"
                 /\ UNCHANGED timeout2
            ELSE /\ timeout2' = IF usesTimeout2
                                THEN RemainingWait(timeout, stop, clock)
                                ELSE Uninit
                 /\ IF ready = 0
                    THEN IF TimedLoopAgain(0, sofar, rBytes)
                         THEN r_pc' = "poll" /\ UNCHANGED <<rRet, how>>
                         ELSE /\ rRet' = TimedReturn(winsock, 0, sofar)
                              /\ r_pc' = "done" /\ how' = "not_ready"
                    ELSE r_pc' = "recv" /\ UNCHANGED <<rRet, how>>
    /\ UNCHANGED <<env, lifecycle, wvars, chan, peerClosed, rparams, rblock, buf,
                   usesTimeout2, start, stop, ready, to, sofar, selvars,
                   clock, eintrs, hardFault, blocked, quietAtEntry>>

\* The one recv of the iteration, "sofar += nread; ret = nread;", the
\* zero-byte test, the loop condition and the return after the loop.
RT_Recv ==
    /\ mode = "timed" /\ r_pc = "recv"
    /\ \E o \in ReadOutcomes(rBytes - sofar) :
         LET nread == o[1]
             sofarNow == SizeAdd(sofar, nread)
         IN /\ buf' = IF nread > 0 THEN Store(buf, sofar, Take(chan, nread))
                      ELSE buf
            /\ chan' = IF nread > 0 THEN Drop(chan, nread) ELSE chan
            /\ eintrs' = IF o = <<-1, TRUE>> THEN eintrs + 1 ELSE eintrs
            /\ hardFault' = (hardFault \/ o = <<-1, FALSE>>)
            /\ sofar' = sofarNow
            /\ IF RecvZeroFails(nread, sofarNow)
               THEN rRet' = -1 /\ r_pc' = "done" /\ how' = "eof"
               ELSE IF TimedLoopAgain(nread, sofarNow, rBytes)
               THEN r_pc' = "poll" /\ UNCHANGED <<rRet, how>>
               ELSE /\ rRet' = TimedReturn(winsock, nread, sofarNow)
                    /\ r_pc' = "done"
                    /\ how' = IF nread > 0 THEN "full"
                              ELSE IF nread = 0 THEN "eof_ignored"
                              ELSE "recv_fail"
    /\ UNCHANGED <<env, lifecycle, wvars, peerClosed, rparams, rblock,
                   timeout2, usesTimeout2, start, stop, now, ready, to,
                   selvars, clock, blocked, quietAtEntry>>

\* The clock advances while the timed read is in progress.  Inside
\* poll()/select() it advances only while there is nothing to report and
\* the wait has not run out (the OS then ends the wait); that time is time
\* spent blocked.  Elsewhere it advances freely (the thread is preempted),
\* MaxTicks times at most; a wait with a limit always sees its limit come.
Tick ==
    /\ mode = "timed" /\ r_pc \in {"poll", "inpoll", "check", "recv"}
    /\ clock < MaxTicks * TickUsec \/ (r_pc = "inpoll" /\ pollUntil < Forever)
    /\ r_pc = "inpoll" => (chan = <<>> /\ ~peerClosed /\ clock < pollUntil)
    /\ clock' = clock + TickUsec
    /\ blocked' = IF r_pc = "inpoll" THEN blocked + TickUsec ELSE blocked
    /\ UNCHANGED <<env, lifecycle, wvars, chan, peerClosed, rparams, rblock, r_pc, buf,
                   rRet, rtimed, selvars, eintrs, hardFault, how, quietAtEntry>>

\* ------------------------------------------- initial states, lifecycle
\* No thread is in ACL_gettimeofday; the statics are as the loader leaves
\* them (static bool false, static struct timeval zero).
HrIdle ==
    /\ hr_offset_determined = FALSE /\ hr_offset = 0 /\ hr_offset_mutex = 0
    /\ g_pc = [t \in Threads |-> "idle"] /\ gDiff = [t \in Threads |-> Uninit]
    /\ gApplied = [t \in Threads |-> Uninit]
    /\ hrComputes = 0 /\ hrStores = 0 /\ hrOutsideLock = FALSE
    /\ gAppliedStored = [t \in Threads |-> FALSE]

\* No direct call is in progress; s is the harness's connected socket.
CallIdle ==
    /\ infile = FirstFd /\ hCall = "none" /\ h_pc = "idle" /\ hRet = NoRet
    /\ hWhy = "none" /\ hReadable = FALSE /\ hEntry = 0
    /\ hShut = {} /\ hShutRet = NoRet /\ osShutdowns = 0
    /\ osTouched = FALSE

\* No conversion is in progress.
NameIdle ==
    /\ nCall = "none" /\ n_pc = "idle" /\ local_host = FreshBuffer(0)
    /\ max_length = 0 /\ nBufNull = FALSE /\ nicIP = NullString
    /\ remote_host = "localhost" /\ udp_sock = BAD_SOCKET
    /\ nRet = NoRet /\ nHow = "none" /\ nAddr = InaddrAny

CorkIdle ==
    /\ apple = FALSE /\ ck_pc = "idle" /\ ckSock = BAD_SOCKET
    /\ ckRet = FALSE /\ ckSet = FALSE /\ ckCalls = 0 /\ ckCorkRet = "none"
    /\ ckIo = 0 /\ ckIoRet = NoRet /\ ckLast = "none"
    /\ ckBefore = [f \in Fds |-> FreeFd]

RandIdle ==
    /\ rngState = 1 /\ rn_pc = [t \in Threads |-> "idle"]
    /\ rnFn = [t \in Threads |-> "genHexadecimalString"]
    /\ rnLen = [t \in Threads |-> 0] /\ rnSeed = [t \in Threads |-> ""]
    /\ rnStr = [t \in Threads |-> <<>>]
    /\ rnResults = [t \in Threads |-> <<>>]
    /\ rnCallsLeft = [t \in Threads |-> 0]
    /\ rnAlone = [t \in Threads |-> TRUE]

HelpersIdle == NameIdle /\ CorkIdle /\ RandIdle

CodecIdle ==
    /\ host = "little" /\ overload = "int64"
    /\ kIn = [i \in 1..SizeofDouble |-> 0] /\ kVal = kIn /\ kOps = <<>>

\* No socket call is in progress and no descriptor is open.
SockIdle ==
    /\ fds = [f \in Fds |-> FreeFd] /\ pending = 0 /\ sigpipeIgnored = FALSE
    /\ s_pc = "idle" /\ NIC_IP = "any" /\ sHasOptions = FALSE
    /\ sOptions = DefaultOptions /\ portPtrNull = FALSE
    /\ listen_portnum = 0 /\ port = 0 /\ lSock = Uninit /\ accept_sock = Uninit
    /\ paTimeout = 0 /\ paRet = NoRet /\ paHow = "none"
    /\ paPendingAtCall = FALSE /\ gaHow = "none"
    /\ c_pc = "idle" /\ addr = "localhost" /\ cHasOptions = FALSE
    /\ cOptions = DefaultOptions /\ cSock = Uninit /\ ctRet = FALSE
    /\ ctHow = "none" /\ ctOpened = FALSE
    /\ m_pc = "idle" /\ mSock = Uninit /\ stoOptions = DefaultOptions
    /\ stoFails = {} /\ stoAttempted = {} /\ stoApplied = {} /\ stoRet = TRUE
    /\ closeCalls = 0 /\ closeBadCalls = 0 /\ csArg = Uninit /\ csRet = NoRet
    /\ osCloses = 0 /\ badCloses = 0

\* No transfer is in progress.
IoIdle ==
    /\ wBytes = 0 /\ wChunk = 1 /\ wSofar = 0 /\ wResult = NoRet /\ w_pc = "idle"
    /\ bwLength = 0 /\ bwSofar = 0 /\ bwRet = NoRet
    /\ chan = <<>> /\ peerClosed = FALSE
    /\ mode = "sock" /\ rBytes = 1 /\ rChunk = 1 /\ timeout = 0
    /\ rSofar = 0 /\ rResult = NoRet /\ r_pc = "idle"
    /\ buf = [j \in 1..rBytes |-> Uninit]
    /\ brLength = 0 /\ brSofar = 0 /\ rRet = NoRet
    /\ timeout2 = Uninit /\ usesTimeout2 = FALSE
    /\ start = Uninit /\ stop = Uninit /\ now = Uninit
    /\ ready = 0 /\ to = 0 /\ sofar = 0
    /\ pollUntil = 0 /\ selTimeout = 0 /\ selTimeout2 = 0 /\ selStop = 0
    /\ clock = 0 /\ eintrs = 0 /\ hardFault = FALSE
    /\ blocked = 0 /\ how = "none" /\ quietAtEntry = FALSE

\* TestServerSide and TestClientSide start as two threads of one process,
\* given the same port.
InitSock ==
    /\ winsock \in BOOLEAN
    /\ IoIdle /\ CodecIdle /\ HrIdle /\ HelpersIdle /\ CallIdle
    /\ fds = [f \in Fds |-> FreeFd] /\ pending = 0 /\ sigpipeIgnored = FALSE
    /\ s_pc = "listen" /\ NIC_IP \in {"any", "unresolvable"}
    /\ sHasOptions \in BOOLEAN
    /\ sOptions \in (IF sHasOptions THEN HarnessOptions ELSE {DefaultOptions})
    /\ portPtrNull \in BOOLEAN
    /\ listen_portnum \in {0, ReqPort}
    /\ portPtrNull => (listen_portnum = 0 /\ NIC_IP = "any" /\ ~sHasOptions)
    /\ port = Uninit /\ lSock = Uninit /\ accept_sock = Uninit
    /\ paTimeout \in Durations /\ paRet = NoRet /\ paHow = "none"
    /\ paPendingAtCall = FALSE /\ gaHow = "none"
    /\ c_pc = "connect" /\ addr \in {"localhost", "unresolvable"}
    /\ cHasOptions \in BOOLEAN
    /\ cOptions \in (IF cHasOptions THEN HarnessOptions ELSE {DefaultOptions})
    /\ cSock = Uninit /\ ctRet = FALSE /\ ctHow = "none" /\ ctOpened = FALSE
    /\ m_pc = "idle" /\ mSock = Uninit /\ stoOptions = DefaultOptions
    /\ stoFails = {} /\ stoAttempted = {} /\ stoApplied = {} /\ stoRet = TRUE
    /\ closeCalls = 0 /\ closeBadCalls = 0 /\ csArg = Uninit /\ csRet = NoRet
    /\ osCloses = 0 /\ badCloses = 0

\* ---------------------------------------------------------- the server
\* The OS calls that can fail in get_a_TCP_socket (one failure per
\* behaviour; a setsockopt is named by its option).
ListenFaults ==
    {"none"} \cup
    (IF hardFault \/ portPtrNull THEN {}
     ELSE {"socket", "bind", "getsockname", "SO_REUSEADDR", "listen",
           "getsockname2"}
          \cup {n \in OptionNames :
                  sHasOptions /\ OptionWanted(winsock, sOptions, n)})

\* TestServerSide: lSock = get_a_TCP_socket(&myPort, NIC, 1000, true, options).
S_Listen ==
    /\ s_pc = "listen"
    /\ \E fault \in ListenFaults :
         LET r == GetATcpSocket(fds, winsock, portPtrNull, listen_portnum,
                                NIC_IP, TRUE, sHasOptions, sOptions, fault)
         IN /\ fds' = r.tbl
            /\ lSock' = r.ret
            /\ listen_portnum' = r.listen_portnum
            /\ gaHow' = r.how
            /\ sigpipeIgnored' = (sigpipeIgnored \/ r.sigign)
            /\ port' = r.port
            /\ hardFault' = (hardFault \/ fault # "none")
    /\ s_pc' = "accept"
    /\ UNCHANGED <<env, iostate, selvars, clock, eintrs, blocked, pending,
                   NIC_IP, sHasOptions, sOptions, portPtrNull, accept_sock,
                   paTimeout, paRet, paHow, paPendingAtCall, cli, mainv,
                   closehist>>

\* "if (lSock == BAD_SOCKET) { result = 1; return; }"
S_GiveUp ==
    /\ s_pc = "accept" /\ lSock = BAD_SOCKET
    /\ s_pc' = "done"
    /\ UNCHANGED <<env, iostate, selvars, clock, eintrs, hardFault, blocked,
                   oss, NIC_IP, sHasOptions, sOptions, portPtrNull,
                   listen_portnum, port, lSock, accept_sock, paTimeout, paRet,
                   paHow, paPendingAtCall, gaHow, cli, mainv, closehist>>

\* The listening handle still names the listening socket.
ListenValid == lSock \in Fds /\ fds[lSock].state = "listening"

\* poll_for_accept(lSock, &accept_sock, timeout), up to the point where
\* check_ready_to_read_timeout starts to wait in poll() / select(); for
\* BAD_SOCKET check_ready_to_read_timeout returns -1 at once and so does
\* poll_for_accept.
S_PollCall ==
    /\ s_pc = "accept"
    /\ paPendingAtCall' = (ListenValid /\ pending > 0)
    /\ IF lSock = BAD_SOCKET
       THEN /\ paRet' = -1 /\ paHow' = "bad_socket"
            /\ s_pc' = "close_listen"
            /\ UNCHANGED selvars
       ELSE /\ IF winsock
               THEN /\ selTimeout' = paTimeout
                    /\ selTimeout2' = paTimeout
                    /\ selStop' = IF paTimeout # 0
                                  THEN TimevalSum(clock, paTimeout) ELSE 0
                    /\ pollUntil' = clock + paTimeout
               ELSE /\ pollUntil' = clock + PollMsec(paTimeout) * UsecPerMsec
                    /\ UNCHANGED <<selTimeout, selTimeout2, selStop>>
            /\ s_pc' = "inaccept"
            /\ UNCHANGED <<paRet, paHow>>
    /\ UNCHANGED <<env, iostate, clock, eintrs, hardFault, blocked, oss,
                   NIC_IP, sHasOptions, sOptions, portPtrNull, listen_portnum,
                   port, lSock, accept_sock, paTimeout, gaHow, cli, mainv,
                   closehist>>

\* What the wait on the listening handle can report, as <<value, errno is
\* EINTR>>: -1 for a handle that is not an open socket any more or an OS
\* error; 1 when a completed connection is waiting; 0 once the wait has run
\* out with none; <<-1, TRUE>> for a wait that found none and was
\* interrupted by a signal.
AcceptWaitOutcomes ==
    (IF ~ListenValid THEN {<<-1, FALSE>>} ELSE {})
      \cup (IF ListenValid /\ ~hardFault THEN {<<-1, FALSE>>} ELSE {})
      \cup (IF ListenValid /\ pending > 0 THEN {<<1, FALSE>>} ELSE {})
      \cup (IF ListenValid /\ pending = 0 /\ clock >= pollUntil
            THEN {<<0, FALSE>>} ELSE {})
      \cup (IF ListenValid /\ pending = 0 /\ eintrs < MaxEintr
            THEN {<<-1, TRUE>>} ELSE {})

\* What accept() can report once the handle is ready: the lowest free
\* descriptor, or a failure (none free, or an OS error).
AcceptFails(ok) == ~ok \/ FreeFds(fds) = {}

\* The wait ends: check_ready_to_read_timeout returns, and poll_for_accept
\* returns -1, accepts, or returns 0.
S_PollReturn ==
    /\ s_pc = "inaccept"
    /\ \E o \in AcceptWaitOutcomes, acceptOk \in BOOLEAN :
         LET r == o[1]
             hardPoll == ListenValid /\ o = <<-1, FALSE>>
             hardAccept == r = 1 /\ ~acceptOk
         IN /\ (hardAccept => ~hardFault)
            /\ (r # 1 => acceptOk)
            /\ eintrs' = IF o[2] THEN eintrs + 1 ELSE eintrs
            /\ hardFault' = (hardFault \/ hardPoll \/ hardAccept)
            /\ IF SelectAgain(o)
               THEN /\ selTimeout2' =
                         IF selTimeout # 0
                         THEN SelectRemaining(selTimeout, selStop, clock)
                         ELSE selTimeout2
                    /\ pollUntil' = clock + selTimeout2'
                    /\ UNCHANGED <<paRet, paHow, s_pc, accept_sock, fds, pending>>
               ELSE /\ UNCHANGED <<selTimeout2, pollUntil>>
                    /\ IF r = -1
                       THEN /\ paRet' = -1
                            /\ paHow' = IF o[2] THEN "eintr" ELSE "poll_error"
                            /\ s_pc' = "close_listen"
                            /\ UNCHANGED <<accept_sock, fds, pending>>
                       ELSE IF r = 1
                       THEN IF AcceptFails(acceptOk)
                            THEN /\ accept_sock' = BAD_SOCKET
                                 /\ paRet' = -1 /\ paHow' = "accept_fail"
                                 /\ s_pc' = "close_listen"
                                 /\ UNCHANGED <<fds, pending>>
                            ELSE /\ accept_sock' = LowestFree(fds)
                                 /\ fds' = [fds EXCEPT ![LowestFree(fds)] =
                                             [state |-> "connected",
                                              sock |-> "accepted",
                                              port |-> fds[lSock].port,
                                              opts |-> {}]]
                                 /\ pending' = pending - 1
                                 /\ paRet' = 1 /\ paHow' = "accepted"
                                 /\ s_pc' = "close_acc"
                       ELSE /\ paRet' = 0 /\ paHow' = "timeout"
                            /\ s_pc' = "close_listen"
                            /\ UNCHANGED <<accept_sock, fds, pending>>
    /\ UNCHANGED <<env, iostate, selTimeout, selStop, clock, blocked,
                   sigpipeIgnored, NIC_IP, sHasOptions, sOptions, portPtrNull,
                   listen_portnum, port, lSock, paTimeout, paPendingAtCall,
                   gaHow, cli, mainv, closehist>>

\* Time passes while the server waits in poll() / select() with nobody
\* connecting.
SockTick ==
    /\ s_pc = "inaccept" /\ ListenValid /\ pending = 0
    /\ clock < pollUntil /\ clock < MaxTicks * TickUsec
    /\ clock' = clock + TickUsec
    /\ blocked' = blocked + TickUsec
    /\ UNCHANGED <<env, iostate, selvars, eintrs, hardFault, lifecycle>>

\* close_socket(sock) called by the holder of socket who.
DoClose(sock, who) ==
    LET r == CloseSocket(fds, sock, who)
    IN /\ fds' = r.tbl
       /\ pending' = PendingAfter(r.tbl, pending)
       /\ closeCalls' = closeCalls + 1
       /\ csArg' = sock /\ csRet' = r.ret
       /\ osCloses' = osCloses + r.os
       /\ badCloses' = badCloses + r.bad

\* TestServerSide: close_socket on the accepted handle.
S_CloseAccepted ==
    /\ s_pc = "close_acc"
    /\ DoClose(accept_sock, "accepted")
    /\ s_pc' = "close_listen"
    /\ UNCHANGED <<env, iostate, selvars, clock, eintrs, hardFault, blocked,
                   sigpipeIgnored, NIC_IP, sHasOptions, sOptions, portPtrNull,
                   listen_portnum, port, lSock, accept_sock, paTimeout, paRet,
                   paHow, paPendingAtCall, gaHow, cli, mainv, closeBadCalls>>

\* TestServerSide: close_socket(lSock).
S_CloseListen ==
    /\ s_pc = "close_listen"
    /\ DoClose(lSock, "listen")
    /\ s_pc' = "done"
    /\ UNCHANGED <<env, iostate, selvars, clock, eintrs, hardFault, blocked,
                   sigpipeIgnored, NIC_IP, sHasOptions, sOptions, portPtrNull,
                   listen_portnum, port, lSock, accept_sock, paTimeout, paRet,
                   paHow, paPendingAtCall, gaHow, cli, mainv, closeBadCalls>>

\* ----------------------------------------------------------- the client
ConnectFaults ==
    {"none"} \cup
    (IF hardFault THEN {}
     ELSE {"socket", "bind", "getsockname", "connect"}
          \cup {n \in OptionNames :
                  cHasOptions /\ OptionWanted(winsock, cOptions, n)})

\* TestClientSide: connect_tcp_to(host, port, nullptr, &sock, options), with
\* the port the server was given or has reported.
C_Connect ==
    /\ c_pc = "connect"
    /\ \E fault \in ConnectFaults :
         LET r == ConnectTcpTo(fds, winsock, pending, addr, listen_portnum,
                               cHasOptions, cOptions, fault)
         IN /\ fds' = r.tbl
            /\ pending' = r.pending
            /\ cSock' = r.s
            /\ ctRet' = r.ret
            /\ ctHow' = r.how
            /\ ctOpened' = r.opened
            /\ sigpipeIgnored' = (sigpipeIgnored \/ r.sigign)
            /\ hardFault' = (hardFault \/ fault # "none")
    /\ c_pc' = "close"
    /\ UNCHANGED <<env, iostate, selvars, clock, eintrs, blocked, srv,
                   addr, cHasOptions, cOptions, mainv, closehist>>

\* TestClientSide: close_socket(sock), after a failed connect_tcp_to
\* ("result = 1; close_socket(sock); return;") as after a successful one.
C_Close ==
    /\ c_pc = "close"
    /\ DoClose(cSock, "client")
    /\ c_pc' = "done"
    /\ UNCHANGED <<env, iostate, selvars, clock, eintrs, hardFault, blocked,
                   sigpipeIgnored, srv, addr, cHasOptions, cOptions, cSock,
                   ctRet, ctHow, ctOpened, mainv, closeBadCalls>>

\* ------------------------------------------------------------------ main
\* main: "SOCKET s = BAD_SOCKET; if (-100 != close_socket(s)) ...".
T_CloseBad ==
    /\ m_pc = "open"
    /\ closeBadCalls < MaxCloseBad
    /\ DoClose(BAD_SOCKET, "main")
    /\ closeBadCalls' = closeBadCalls + 1
    /\ UNCHANGED <<env, iostate, selvars, clock, eintrs, hardFault, blocked,
                   sigpipeIgnored, srv, cli, mainv>>

\* main, "Testing basic socket creation": s = open_socket(SOCK_STREAM,
\* nullptr, nullptr); the handle is tested against BAD_SOCKET.
M_Open ==
    /\ m_pc = "open"
    /\ \E fault \in {"none", "socket", "bind", "getsockname"} :
         LET o == OpenSocket(fds, "main", FALSE, 0, "any", FALSE, fault)
         IN /\ fds' = o.tbl
            /\ mSock' = o.sock
            /\ m_pc' = IF o.sock = BAD_SOCKET THEN "done" ELSE "options"
    /\ UNCHANGED <<env, iostate, selvars, clock, eintrs, hardFault, blocked,
                   pending, sigpipeIgnored, srv, cli, stoOptions, stoFails,
                   stoAttempted, stoApplied, stoRet, closehist>>

\* main: set_tcp_socket_options(s, options), with any TCPOptions and any
\* set of setsockopt calls rejected by the OS.
M_SetOptions ==
    /\ m_pc = "options"
    /\ \E options \in AllOptions, fails \in SUBSET OptionNames :
         LET sto == SetTcpSocketOptions(winsock, options, fails)
         IN /\ fails \subseteq sto.attempted
            /\ fds' = ApplyOptions(fds, mSock, sto.applied)
            /\ sigpipeIgnored' =
                 (sigpipeIgnored \/ (options.ignoreSIGPIPE /\ ~winsock))
            /\ stoOptions' = options
            /\ stoFails' = fails
            /\ stoAttempted' = sto.attempted
            /\ stoApplied' = sto.applied
            /\ stoRet' = sto.ret
    /\ m_pc' = "close"
    /\ UNCHANGED <<env, iostate, selvars, clock, eintrs, hardFault, blocked,
                   pending, srv, cli, mSock, closehist>>

\* main: close_socket(s).
M_Close ==
    /\ m_pc = "close"
    /\ DoClose(mSock, "main")
    /\ m_pc' = "done"
    /\ UNCHANGED <<env, iostate, selvars, clock, eintrs, hardFault, blocked,
                   sigpipeIgnored, srv, cli, mSock, stoOptions, stoFails,
                   stoAttempted, stoApplied, stoRet, closeBadCalls>>

\* ------------------------------------------------------------ the codec
\* x = hton(x)
K_Hton ==
    /\ Len(kOps) < MaxCodecOps
    /\ kVal' = Hton(overload, host, kVal)
    /\ kOps' = Append(kOps, "hton")
    /\ UNCHANGED <<winsock, helpers, callenv, hrclock, host, overload, kIn, iostate, selvars,
                   clock, eintrs, hardFault, blocked, lifecycle>>

\* x = ntoh(x)
K_Ntoh ==
    /\ Len(kOps) < MaxCodecOps
    /\ kVal' = Ntoh(overload, host, kVal)
    /\ kOps' = Append(kOps, "ntoh")
    /\ UNCHANGED <<winsock, helpers, callenv, hrclock, host, overload, kIn, iostate, selvars,
                   clock, eintrs, hardFault, blocked, lifecycle>>

\* ------------------------------------------ ACL_gettimeofday (Winsock)
\* ACL_gettimeofday reads the high-resolution clock and calls
\* high_resolution_time_to_system_time, which starts with the unlocked
\* test if (!hr_offset_determined).  The variable is a plain bool written by
\* another thread under the mutex: the read races with that write.
G_Check(t) ==
    /\ g_pc[t] = "call"
    /\ g_pc' = [g_pc EXCEPT ![t] = IF ~hr_offset_determined THEN "lock"
                                    ELSE "apply"]
    /\ UNCHANGED <<winsock, helpers, callenv, codec, hr_offset_determined, hr_offset,
                   hr_offset_mutex, gDiff, gApplied, hrComputes, hrStores,
                   hrOutsideLock, gAppliedStored, iostate, selvars, clock,
                   eintrs, hardFault, blocked, lifecycle>>

\* std::lock_guard<std::mutex> lock(hr_offset_mutex);
G_Lock(t) ==
    /\ g_pc[t] = "lock" /\ hr_offset_mutex = 0
    /\ hr_offset_mutex' = t
    /\ g_pc' = [g_pc EXCEPT ![t] = "recheck"]
    /\ UNCHANGED <<winsock, helpers, callenv, codec, hr_offset_determined, hr_offset, gDiff,
                   gApplied, hrComputes, hrStores, hrOutsideLock,
                   gAppliedStored, iostate, selvars, clock, eintrs, hardFault,
                   blocked, lifecycle>>

\* if (!hr_offset_determined) with the mutex held; when the test fails the
\* block ends and the lock is released.
G_Recheck(t) ==
    /\ g_pc[t] = "recheck"
    /\ IF ~hr_offset_determined
       THEN g_pc' = [g_pc EXCEPT ![t] = "compute"] /\ UNCHANGED hr_offset_mutex
       ELSE g_pc' = [g_pc EXCEPT ![t] = "apply"] /\ hr_offset_mutex' = 0
    /\ UNCHANGED <<winsock, helpers, callenv, codec, hr_offset_determined, hr_offset, gDiff,
                   gApplied, hrComputes, hrStores, hrOutsideLock,
                   gAppliedStored, iostate, selvars, clock, eintrs, hardFault,
                   blocked, lifecycle>>

\* The system clock is watched until it ticks, the high-resolution clock is
\* read, and the difference of the two is formed.
G_Compute(t) ==
    /\ g_pc[t] = "compute"
    /\ \E d \in Offsets : gDiff' = [gDiff EXCEPT ![t] = d]
    /\ hrComputes' = hrComputes + 1
    /\ hrOutsideLock' = (hrOutsideLock \/ hr_offset_mutex # t)
    /\ g_pc' = [g_pc EXCEPT ![t] = "store"]
    /\ UNCHANGED <<winsock, helpers, callenv, codec, hr_offset_determined, hr_offset,
                   hr_offset_mutex, gApplied, hrStores, gAppliedStored,
                   iostate, selvars, clock, eintrs, hardFault, blocked,
                   lifecycle>>

\* hr_offset = acl::TimevalDiff(post_time, high_time);  The two plain stores,
\* this one and the one to hr_offset_determined, are ordered only by the
\* unlock that follows them: a thread that reads without the mutex can see
\* them in either order.
G_StoreOffset(t) ==
    /\ g_pc[t] \in {"store", "store_offset"}
    /\ hr_offset' = gDiff[t]
    /\ hrStores' = hrStores + 1
    /\ g_pc' = [g_pc EXCEPT ![t] = IF g_pc[t] = "store" THEN "store_flag"
                                    ELSE "unlock"]
    /\ UNCHANGED <<winsock, helpers, callenv, codec, hr_offset_determined, hr_offset_mutex,
                   gDiff, gApplied, hrComputes, hrOutsideLock, gAppliedStored,
                   iostate, selvars, clock, eintrs, hardFault, blocked,
                   lifecycle>>

\* hr_offset_determined = true;
G_StoreFlag(t) ==
    /\ g_pc[t] \in {"store", "store_flag"}
    /\ hr_offset_determined' = TRUE
    /\ g_pc' = [g_pc EXCEPT ![t] = IF g_pc[t] = "store" THEN "store_offset"
                                    ELSE "unlock"]
    /\ UNCHANGED <<winsock, helpers, callenv, codec, hr_offset, hr_offset_mutex, gDiff,
                   gApplied, hrComputes, hrStores, hrOutsideLock,
                   gAppliedStored, iostate, selvars, clock, eintrs, hardFault,
                   blocked, lifecycle>>

\* The end of the outer if block: the lock_guard releases the mutex.
G_Unlock(t) ==
    /\ g_pc[t] = "unlock"
    /\ hr_offset_mutex' = 0
    /\ g_pc' = [g_pc EXCEPT ![t] = "apply"]
    /\ UNCHANGED <<winsock, helpers, callenv, codec, hr_offset_determined, hr_offset, gDiff,
                   gApplied, hrComputes, hrStores, hrOutsideLock,
                   gAppliedStored, iostate, selvars, clock, eintrs, hardFault,
                   blocked, lifecycle>>

\* return acl::TimevalSum(hi_res_time, hr_offset);
G_Apply(t) ==
    /\ g_pc[t] = "apply"
    /\ gApplied' = [gApplied EXCEPT ![t] = hr_offset]
    /\ gAppliedStored' = [gAppliedStored EXCEPT ![t] = hrStores > 0]
    /\ g_pc' = [g_pc EXCEPT ![t] = "done"]
    /\ UNCHANGED <<winsock, helpers, callenv, codec, hr_offset_determined, hr_offset,
                   hr_offset_mutex, gDiff, hrComputes, hrStores, hrOutsideLock,
                   iostate, selvars, clock, eintrs, hardFault, blocked,
                   lifecycle>>

\* ------------------------------------- one call on a connected socket
\* The call has returned.
CallReturned ==
    \/ h_pc = "after"
    \/ h_pc = "call" /\ hCall = "timed_read" /\ r_pc = "done"
    \/ h_pc = "call" /\ hCall = "block_write" /\ w_pc = "done"

\* check_ready_to_read_timeout(infile, timeout) up to the point where
\* poll() (POSIX) or select() inside noint_select (Winsock) starts to wait.
H_CheckReady ==
    /\ hCall = "check_ready" /\ h_pc = "call"
    /\ IF infile = BAD_SOCKET
       THEN /\ hRet' = -1 /\ hWhy' = "bad_socket" /\ h_pc' = "after"
            /\ UNCHANGED <<osTouched, hEntry, selvars>>
       ELSE /\ osTouched' = TRUE /\ hEntry' = clock /\ h_pc' = "inwait"
            /\ IF winsock
               THEN /\ selTimeout' = timeout
                    /\ selTimeout2' = timeout
                    /\ selStop' = IF timeout # 0 THEN TimevalSum(clock, timeout)
                                  ELSE 0
                    /\ pollUntil' = clock + timeout
               ELSE /\ pollUntil' = PollDeadline(clock, PollMsec(timeout))
                    /\ UNCHANGED <<selTimeout, selTimeout2, selStop>>
            /\ UNCHANGED <<hRet, hWhy>>
    /\ UNCHANGED <<env0, infile, hCall, hReadable, shutv, iostate, clock,
                   eintrs, hardFault, blocked, lifecycle>>

\* What the wait of check_ready_to_read_timeout can report.  The Winsock
\* select() refuses a negative timeout at once (WSAEINVAL).
ReadyOutcomes ==
    IF winsock /\ timeout < 0 THEN {<<-1, FALSE>>} ELSE WaitOutcomes

\* Why the wait ended with outcome o.
ReadyWhy(o) ==
    IF winsock /\ timeout < 0 THEN "invalid_timeout"
    ELSE IF o = <<1, FALSE>> THEN "readable"
    ELSE IF o = <<0, FALSE>> THEN "timeout"
    ELSE IF o = <<-1, TRUE>> THEN "eintr"
    ELSE "condition"

\* The wait ends.  POSIX: -1 if revents has POLLERR, POLLHUP or POLLNVAL,
\* else the value of poll().  Winsock: -1 if noint_select returned -1 or the
\* handle is in exceptfds, 1 if it is in readfds, else 0.
H_CheckReadyReturn ==
    /\ hCall = "check_ready" /\ h_pc = "inwait"
    /\ \E o \in ReadyOutcomes :
         /\ eintrs' = IF o[2] THEN eintrs + 1 ELSE eintrs
         /\ hardFault' = (hardFault \/ (ReadyWhy(o) = "condition"
                                           /\ ~(~winsock /\ peerClosed)))
         /\ IF SelectAgain(o)
            THEN /\ selTimeout2' =
                      IF selTimeout # 0
                      THEN SelectRemaining(selTimeout, selStop, clock)
                      ELSE selTimeout2
                 /\ pollUntil' = clock + selTimeout2'
                 /\ UNCHANGED <<hRet, hWhy, hReadable, h_pc, fds>>
            ELSE /\ UNCHANGED <<selTimeout2, pollUntil>>
                 /\ hRet' = o[1]
                 /\ hWhy' = ReadyWhy(o)
                 /\ hReadable' = (chan # <<>> \/ peerClosed)
                 /\ h_pc' = "after"
                 /\ fds' = HandleAfterIo(fds, infile, o[1])
    /\ UNCHANGED <<env0, infile, hCall, hEntry, shutv, osTouched, iostate,
                   selTimeout, selStop, clock, blocked, pending,
                   sigpipeIgnored, srv, cli, mainv, closehist>>

\* The clock advances while check_ready_to_read_timeout waits with nothing
\* to report.
H_Tick ==
    /\ hCall = "check_ready" /\ h_pc = "inwait"
    /\ clock < MaxTicks * TickUsec
    /\ chan = <<>> /\ ~peerClosed /\ clock < pollUntil
    /\ clock' = clock + TickUsec
    /\ blocked' = blocked + TickUsec
    /\ UNCHANGED <<env, wvars, chan, peerClosed, rparams, rblock, r_pc, buf,
                   rRet, rtimed, selvars, eintrs, hardFault, how,
                   quietAtEntry, lifecycle>>

\* The peer closes the connection while the call is in progress.
H_PeerClose ==
    /\ hCall \in {"check_ready", "block_read", "timed_read"}
    /\ h_pc \in {"call", "inwait", "read"} /\ ~CallReturned
    /\ ~peerClosed
    /\ peerClosed' = TRUE
    /\ UNCHANGED <<env, wvars, chan, rparams, rblock, r_pc, buf, rRet, rtimed,
                   selvars, clock, eintrs, hardFault, hist, lifecycle>>

\* noint_block_read(infile, buf, length) up to the loop, as
\* TestServerSide calls it.
H_BlockRead ==
    /\ hCall = "block_read" /\ h_pc = "call"
    /\ brLength' = rBytes /\ brSofar' = 0
    /\ IF BlockReadSkips(rBytes)
       THEN hRet' = 0 /\ h_pc' = "after"
       ELSE h_pc' = "read" /\ UNCHANGED hRet
    /\ UNCHANGED <<env0, infile, hCall, hWhy, hReadable, hEntry, shutv,
                   osTouched, wvars, chan, peerClosed, rparams, rSofar,
                   rResult, r_pc, buf, rRet, rtimed, selvars, clock, eintrs,
                   hardFault, hist, lifecycle>>

\* One iteration of the do-while of noint_block_read and the return after
\* the loop.  read() on BAD_SOCKET fails (EBADF).
H_BlockReadLoop ==
    /\ hCall = "block_read" /\ h_pc = "read"
    /\ osTouched' = TRUE
    /\ \E o \in (IF infile = BAD_SOCKET THEN {<<-1, FALSE>>}
                 ELSE ReadOutcomes(brLength - brSofar)) :
         LET osret == o[1]
             body == BlockLoopBody(brSofar, osret, o[2])
             ret == ReadReturn(body.ret, body.sofar)
         IN /\ buf' = IF osret > 0 THEN Store(buf, brSofar, Take(chan, osret))
                       ELSE buf
            /\ chan' = IF osret > 0 THEN Drop(chan, osret) ELSE chan
            /\ eintrs' = IF o = <<-1, TRUE>> THEN eintrs + 1 ELSE eintrs
            /\ hardFault' = (hardFault \/ (o = <<-1, FALSE>>
                                             /\ infile # BAD_SOCKET))
            /\ brSofar' = body.sofar
            /\ how' = IF osret = 0 THEN "eof" ELSE how
            /\ IF BlockLoopAgain(body.ret, body.sofar, brLength)
               THEN UNCHANGED <<hRet, h_pc, fds>>
               ELSE /\ hRet' = ret /\ h_pc' = "after"
                    /\ fds' = HandleAfterIo(fds, infile, ret)
    /\ UNCHANGED <<env0, infile, hCall, hWhy, hReadable, hEntry, shutv, wvars,
                   peerClosed, rparams, rSofar, rResult, brLength, r_pc, rRet,
                   rtimed, selvars, clock, blocked, quietAtEntry, pending,
                   sigpipeIgnored, srv, cli, mainv, closehist>>

\* shutdown_socket(infile), as the call itself or after the call returned.
H_Shutdown ==
    /\ \/ hCall = "shutdown" /\ h_pc = "call"
       \/ hCall # "shutdown" /\ CallReturned
    /\ LET r == ShutdownSocket(fds, hShut, infile)
       IN /\ hShutRet' = r.ret
          /\ hShut' = r.shut
          /\ fds' = r.tbl
          /\ osShutdowns' = osShutdowns + r.os
    /\ h_pc' = "shut"
    /\ UNCHANGED <<env0, infile, hCall, callres, osTouched, iostate, selvars,
                   clock, eintrs, hardFault, blocked, pending, sigpipeIgnored,
                   srv, cli, mainv, closehist>>

\* close_socket(infile), the last thing the thread does with the handle.
H_Close ==
    /\ (h_pc = "shut" \/ (hCall # "shutdown" /\ CallReturned))
    /\ DoClose(infile, "accepted")
    /\ h_pc' = "closed"
    /\ UNCHANGED <<env0, infile, hCall, callres, shutv, osTouched, iostate,
                   selvars, clock, eintrs, hardFault, blocked, sigpipeIgnored,
                   srv, cli, mainv, closeBadCalls>>

\* -------------------------------------------------- the local-address calls
\* The inputs of the calls: the addresses the OS can report for this host,
\* the NIC_IP strings a caller passes, and the library calls that can fail.
LocalAddresses == {<<1, 2, 3, 4>>, <<10, 0, 0, 1>>}
NicStrings ==
    {NullString, CString(<<>>), CString(FormatHostAddr(<<1, 2, 3, 4>>)),
     CString(FormatHostAddr(<<10, 0, 0, 1>>))}
LongNicString == CString([j \in 1..(SizeofMyIPchar + 1) |-> "x"])
NameCalls == {"get_local_socket_name", "getmyIP", "udp_request_lob_packet"}
NameFaults ==
    {"none", "socket", "bind", "connect", "udp_getsockname", "name_getsockname"}
MyIPFaults == {"none", "getsockname", "gethostname", "gethostbyname", "h_length"}
LobFaults == MyIPFaults \cup {"send"}

\* The caller's own UDP socket (connect_udp_port in the test) on FirstFd.
NameTable ==
    [f \in Fds |-> IF f = FirstFd
                   THEN [state |-> "connected", sock |-> "udp",
                         port |-> EphemeralPort, opts |-> {}]
                   ELSE FreeFd]

\* The effect of a call that returned r on the caller's buffer, on the
\* descriptor table and on the counts of OS close calls.
NameCallReturns(r) ==
    /\ fds' = r.tbl /\ local_host' = r.out
    /\ nRet' = r.ret /\ nHow' = r.how /\ nAddr' = r.addr
    /\ osCloses' = osCloses + r.os /\ badCloses' = badCloses + r.bad

MyIPCallReturns(r, a) ==
    /\ local_host' = r.out /\ nRet' = r.ret /\ nHow' = r.how /\ nAddr' = a

LobCallReturns(r, a) ==
    /\ fds' = r.tbl /\ nRet' = r.ret /\ nHow' = r.how /\ nAddr' = a
    /\ osCloses' = osCloses + r.os /\ badCloses' = badCloses + r.bad

\* get_local_socket_name(local_host, max_length, remote_host)
N_GetLocalSocketName ==
    /\ nCall = "get_local_socket_name" /\ n_pc = "call"
    /\ \E fault \in NameFaults, a \in LocalAddresses :
         NameCallReturns(GetLocalSocketName(fds, local_host, max_length,
                                            remote_host, fault, a))
    /\ n_pc' = "returned"
    /\ UNCHANGED <<winsock, codec, hrclock, notname, callenv, iostate, selvars, clock,
                   eintrs, hardFault, blocked, pending, sigpipeIgnored, srv,
                   cli, mainv, closeCalls, closeBadCalls, csArg, csRet,
                   nCall, max_length, nBufNull, nicIP, remote_host, udp_sock>>

\* getmyIP(myIPchar, maxlen, NIC_IP, incoming_socket)
N_GetMyIP ==
    /\ nCall = "getmyIP" /\ n_pc = "call"
    /\ \E fault \in MyIPFaults, a \in LocalAddresses :
         MyIPCallReturns(GetMyIP(nBufNull, local_host, max_length, nicIP,
                                 udp_sock, fds, fault, a), a)
    /\ n_pc' = "returned"
    /\ UNCHANGED <<winsock, codec, hrclock, notname, callenv, iostate, selvars, clock,
                   eintrs, hardFault, blocked, lifecycle,
                   nCall, max_length, nBufNull, nicIP, remote_host, udp_sock>>

\* udp_request_lob_packet(udp_sock, machine, remote_port, local_port, NIC_IP)
N_UdpRequestLobPacket ==
    /\ nCall = "udp_request_lob_packet" /\ n_pc = "call"
    /\ \E fault \in LobFaults, a \in LocalAddresses :
         LobCallReturns(UdpRequestLobPacket(fds, udp_sock, nicIP, fault, a), a)
    /\ n_pc' = "returned"
    /\ UNCHANGED <<winsock, codec, hrclock, notname, callenv, iostate, selvars, clock,
                   eintrs, hardFault, blocked, pending, sigpipeIgnored, srv,
                   cli, mainv, closeCalls, closeBadCalls, csArg, csRet,
                   nCall, local_host, max_length, nBufNull, nicIP, remote_host,
                   udp_sock>>

\* The caller is done with its UDP socket: close_socket(udp_sock).
N_Close ==
    /\ n_pc = "returned"
    /\ DoClose(udp_sock, "udp")
    /\ n_pc' = "closed"
    /\ UNCHANGED <<winsock, codec, hrclock, notname, callenv, iostate, selvars, clock,
                   eintrs, hardFault, blocked, sigpipeIgnored, srv, cli, mainv,
                   closeBadCalls, nCall, local_host, max_length, nBufNull,
                   nicIP, remote_host, udp_sock, nRet, nHow, nAddr>>

\* ------------------------------------------------------- cork and uncork
CorkFaults == {"none", "getprotobyname", "setsockopt"}

\* The effect of a cork_tcp_socket / uncork_tcp_socket call that returned r.
CorkCallReturns(r) ==
    /\ fds' = r.tbl /\ ckRet' = r.ret /\ ckSet' = r.set /\ ckCalls' = r.calls

\* cork_tcp_socket(ckSock), by a thread that has not corked yet.
CK_Cork ==
    /\ ck_pc = "start"
    /\ \E fault \in CorkFaults :
         CorkCallReturns(CorkTcpSocket(fds, ckSock, CorkByNodelay(winsock, apple),
                                       fault))
    /\ ck_pc' = "corked" /\ ckLast' = "cork" /\ ckBefore' = fds
    /\ ckCorkRet' = IF ckRet' THEN "true" ELSE "false"
    /\ UNCHANGED <<winsock, codec, hrclock, notcork, callenv, iostate, selvars,
                   clock, eintrs, hardFault, blocked, pending, sigpipeIgnored,
                   srv, cli, mainv, closehist, apple, ckSock, ckIo, ckIoRet>>

\* uncork_tcp_socket(ckSock), after a cork or without one.
CK_Uncork ==
    /\ ck_pc \in {"start", "corked"}
    /\ \E fault \in CorkFaults :
         CorkCallReturns(UncorkTcpSocket(fds, ckSock,
                                         CorkByNodelay(winsock, apple), fault))
    /\ ck_pc' = "uncorked" /\ ckLast' = "uncork"
    /\ ckBefore' = fds
    /\ UNCHANGED <<winsock, codec, hrclock, notcork, callenv, iostate, selvars,
                   clock, eintrs, hardFault, blocked, pending, sigpipeIgnored,
                   srv, cli, mainv, closehist, apple, ckSock, ckIo, ckIoRet,
                   ckCorkRet>>

\* A one-byte write or read on the connection after a cork or uncork call
\* (noint_block_write / noint_block_read, whose first OS call moves the
\* byte): it fails on a handle that is not a connected socket.
CK_Io ==
    /\ ck_pc \in {"corked", "uncorked"}
    /\ ckIo < MaxCorkIo
    /\ ckIo' = ckIo + 1
    /\ ckIoRet' = IF SocketUsable(fds, ckSock) THEN 1 ELSE -1
    /\ ckLast' = "io"
    /\ UNCHANGED <<winsock, codec, hrclock, notcork, callenv, iostate, selvars,
                   clock, eintrs, hardFault, blocked, lifecycle, apple, ck_pc,
                   ckSock, ckRet, ckSet, ckCalls, ckCorkRet, ckBefore>>

\* close_socket(ckSock), the last thing the thread does with the handle.
CK_Close ==
    /\ ck_pc \in {"corked", "uncorked"}
    /\ DoClose(ckSock, "accepted")
    /\ ck_pc' = "closed" /\ ckLast' = "close"
    /\ UNCHANGED <<winsock, codec, hrclock, notcork, callenv, iostate, selvars,
                   clock, eintrs, hardFault, blocked, sigpipeIgnored, srv, cli,
                   mainv, closeBadCalls, apple, ckSock, ckRet, ckSet, ckCalls,
                   ckCorkRet, ckIo, ckIoRet, ckBefore>>

\* ------------------------------------------------------- RandomIDGenerator
\* Thread t enters its generator: the seeding.
RN_Seed(t) ==
    /\ rn_pc[t] = "call"
    /\ \E s \in SeedValues(rnFn[t], rnSeed[t]) : rngState' = Srand(s)
    /\ rn_pc' = [rn_pc EXCEPT ![t] = "draw"]
    /\ rnStr' = [rnStr EXCEPT ![t] = <<>>]
    /\ rnAlone' = [u \in Threads |->
                     rnAlone[u] /\ (u = t \/ rn_pc[u] # "draw")]
    /\ UNCHANGED <<winsock, codec, hrclock, notrand, callenv, iostate, selvars,
                   clock, eintrs, hardFault, blocked, lifecycle, rnFn, rnLen,
                   rnSeed, rnResults, rnCallsLeft>>

\* One pass of the loop: a draw from the generator and a character stored.
RN_Draw(t) ==
    /\ rn_pc[t] = "draw"
    /\ DrawAgain(rnFn[t], Len(rnStr[t]), rnLen[t])
    /\ rngState' = RandStep(rngState)
    /\ rnStr' = [rnStr EXCEPT ![t] = Append(@, DrawnChar(rnFn[t], rngState'))]
    /\ rnAlone' = [u \in Threads |->
                     rnAlone[u] /\ (u = t \/ rn_pc[u] # "draw")]
    /\ UNCHANGED <<winsock, codec, hrclock, notrand, callenv, iostate, selvars,
                   clock, eintrs, hardFault, blocked, lifecycle, rn_pc, rnFn,
                   rnLen, rnSeed, rnResults, rnCallsLeft>>

\* The loop is over: return str.  A thread with calls left makes the same
\* call again.
RN_Return(t) ==
    /\ rn_pc[t] = "draw"
    /\ ~DrawAgain(rnFn[t], Len(rnStr[t]), rnLen[t])
    /\ rnResults' = [rnResults EXCEPT ![t] = Append(@, rnStr[t])]
    /\ rnCallsLeft' = [rnCallsLeft EXCEPT ![t] = @ - 1]
    /\ rn_pc' = [rn_pc EXCEPT ![t] = IF rnCallsLeft[t] > 1 THEN "call" ELSE "done"]
    /\ UNCHANGED <<winsock, codec, hrclock, notrand, callenv, iostate, selvars,
                   clock, eintrs, hardFault, blocked, lifecycle, rngState, rnFn,
                   rnLen, rnSeed, rnStr, rnAlone>>

\* ------------------------------------------------------- specifications
\* The blocking pair: TestWriteToSocket against TestReadFromSocket.
InitBlock == InitAll /\ mode = "block" /\ SockIdle /\ CodecIdle /\ HrIdle /\ HelpersIdle /\ CallIdle

NextBlock ==
    \/ W_Chunk
    \/ W_Write
    \/ W_Close
    \/ R_Chunk
    \/ R_Read

SpecBlock == InitBlock /\ [][NextBlock]_vars

\* One call of noint_block_read_timeout against TestWriteToSocket.
InitTimed == InitAll /\ mode = "timed" /\ SockIdle /\ CodecIdle /\ HrIdle /\ HelpersIdle /\ CallIdle

NextTimed ==
    \/ W_Chunk
    \/ W_Write
    \/ W_Close
    \/ RT_Enter
    \/ RT_Poll
    \/ RT_PollReturn
    \/ RT_Check
    \/ RT_Recv
    \/ Tick

SpecTimed == InitTimed /\ [][NextTimed]_vars

\* The same with a scheduler that lets the reading thread run and the clock
\* advance, and an OS whose poll()/select() returns once the handle is
\* readable or the time given has run out.  Signals and errors may or may
\* not come.
FairTimed ==
    /\ WF_vars(RT_Enter) /\ WF_vars(RT_Poll)
    /\ WF_vars(\E o \in {<<1, FALSE>>, <<0, FALSE>>} : RT_PollReturnWith(o))
    /\ WF_vars(RT_Check) /\ WF_vars(RT_Recv) /\ WF_vars(Tick)

SpecTimedFair == InitTimed /\ [][NextTimed]_vars /\ FairTimed

\* TestServerSide against TestClientSide: the life of the handles.
NextSock ==
    \/ S_Listen
    \/ S_GiveUp
    \/ S_PollCall
    \/ S_PollReturn
    \/ SockTick
    \/ S_CloseAccepted
    \/ S_CloseListen
    \/ C_Connect
    \/ C_Close

SpecSock == InitSock /\ [][NextSock]_vars

\* main: the close_socket(BAD_SOCKET) check, then the open / configure /
\* close of one stream socket.
InitOpts ==
    /\ winsock \in BOOLEAN
    /\ IoIdle /\ CodecIdle /\ HrIdle /\ HelpersIdle /\ CallIdle
    /\ fds = [f \in Fds |-> FreeFd] /\ pending = 0 /\ sigpipeIgnored = FALSE
    /\ s_pc = "idle" /\ NIC_IP = "any" /\ sHasOptions = FALSE
    /\ sOptions = DefaultOptions /\ portPtrNull = FALSE
    /\ listen_portnum = 0 /\ port = 0 /\ lSock = Uninit /\ accept_sock = Uninit
    /\ paTimeout = 0 /\ paRet = NoRet /\ paHow = "none"
    /\ paPendingAtCall = FALSE /\ gaHow = "none"
    /\ c_pc = "idle" /\ addr = "localhost" /\ cHasOptions = FALSE
    /\ cOptions = DefaultOptions /\ cSock = Uninit /\ ctRet = FALSE
    /\ ctHow = "none" /\ ctOpened = FALSE
    /\ m_pc = "open" /\ mSock = Uninit /\ stoOptions = DefaultOptions
    /\ stoFails = {} /\ stoAttempted = {} /\ stoApplied = {} /\ stoRet = TRUE
    /\ closeCalls = 0 /\ closeBadCalls = 0 /\ csArg = Uninit /\ csRet = NoRet
    /\ osCloses = 0 /\ badCloses = 0

NextOpts ==
    \/ T_CloseBad
    \/ M_Open
    \/ M_SetOptions
    \/ M_Close

SpecOpts == InitOpts /\ [][NextOpts]_vars

\* hton and ntoh applied in any order to any pattern, on any host.
InitCodec ==
    /\ winsock = FALSE /\ IoIdle /\ SockIdle /\ HrIdle /\ HelpersIdle /\ CallIdle
    /\ host \in Hosts /\ overload \in Overloads
    /\ kIn \in Bytes8 /\ kVal = kIn /\ kOps = <<>>

NextCodec ==
    \/ K_Hton
    \/ K_Ntoh

SpecCodec == InitCodec /\ [][NextCodec]_vars

\* NumThreads threads each call ACL_gettimeofday once, in the Winsock build.
InitClock ==
    /\ winsock = TRUE /\ IoIdle /\ SockIdle /\ CodecIdle /\ HelpersIdle
    /\ CallIdle
    /\ hr_offset_determined = FALSE /\ hr_offset = 0 /\ hr_offset_mutex = 0
    /\ g_pc = [t \in Threads |-> "call"] /\ gDiff = [t \in Threads |-> Uninit]
    /\ gApplied = [t \in Threads |-> Uninit]
    /\ hrComputes = 0 /\ hrStores = 0 /\ hrOutsideLock = FALSE
    /\ gAppliedStored = [t \in Threads |-> FALSE]

NextClock ==
    \/ \E t \in Threads : G_Check(t)
    \/ \E t \in Threads : G_Lock(t)
    \/ \E t \in Threads : G_Recheck(t)
    \/ \E t \in Threads : G_Compute(t)
    \/ \E t \in Threads : G_StoreOffset(t)
    \/ \E t \in Threads : G_StoreFlag(t)
    \/ \E t \in Threads : G_Unlock(t)
    \/ \E t \in Threads : G_Apply(t)

SpecClock == InitClock /\ [][NextClock]_vars

\* A thread holds the connected socket FirstFd (TestServerSide after
\* poll_for_accept) and calls one function on infile, then shutdown_socket
\* and close_socket.
InitCall ==
    /\ winsock \in BOOLEAN /\ CodecIdle /\ HrIdle /\ HelpersIdle
    /\ hCall \in HandleCalls /\ infile \in {BAD_SOCKET, FirstFd}
    /\ h_pc = "call" /\ hRet = NoRet /\ hWhy = "none" /\ hReadable = FALSE
    /\ hEntry = 0 /\ hShut = {} /\ hShutRet = NoRet /\ osShutdowns = 0
    /\ osTouched = FALSE
    /\ fds = [f \in Fds |-> IF f = FirstFd
                             THEN [state |-> "connected", sock |-> "accepted",
                                   port |-> ReqPort, opts |-> {}]
                             ELSE FreeFd]
    /\ pending = 0 /\ sigpipeIgnored = FALSE
    /\ s_pc = "idle" /\ NIC_IP = "any" /\ sHasOptions = FALSE
    /\ sOptions = DefaultOptions /\ portPtrNull = FALSE
    /\ listen_portnum = 0 /\ port = 0 /\ lSock = Uninit /\ accept_sock = FirstFd
    /\ paTimeout = 0 /\ paRet = NoRet /\ paHow = "none"
    /\ paPendingAtCall = FALSE /\ gaHow = "none"
    /\ c_pc = "idle" /\ addr = "localhost" /\ cHasOptions = FALSE
    /\ cOptions = DefaultOptions /\ cSock = Uninit /\ ctRet = FALSE
    /\ ctHow = "none" /\ ctOpened = FALSE
    /\ m_pc = "idle" /\ mSock = Uninit /\ stoOptions = DefaultOptions
    /\ stoFails = {} /\ stoAttempted = {} /\ stoApplied = {} /\ stoRet = TRUE
    /\ closeCalls = 0 /\ closeBadCalls = 0 /\ csArg = Uninit /\ csRet = NoRet
    /\ osCloses = 0 /\ badCloses = 0
    /\ wBytes \in (IF hCall = "block_write" THEN 0..1 ELSE {0})
    /\ wChunk = 1 /\ wSofar = 0 /\ wResult = NoRet
    /\ w_pc = IF hCall = "block_write" THEN "loop" ELSE "idle"
    /\ bwLength = 0 /\ bwSofar = 0 /\ bwRet = NoRet
    /\ chan \in (IF hCall \in {"check_ready", "block_read", "timed_read"}
                 THEN {<<>>, <<Pattern(0)>>} ELSE {<<>>})
    /\ peerClosed = FALSE
    /\ mode = IF hCall = "timed_read" THEN "timed" ELSE "call"
    /\ rBytes \in (IF hCall \in {"block_read", "timed_read"} THEN 0..1 ELSE {1})
    /\ rChunk = 1
    /\ timeout \in (IF hCall = "check_ready" THEN ReadyTimeouts
                    ELSE IF hCall = "timed_read" THEN Durations ELSE {0})
    /\ rSofar = 0 /\ rResult = NoRet
    /\ r_pc = IF hCall = "timed_read" THEN "enter" ELSE "idle"
    /\ buf = [j \in 1..rBytes |-> Uninit]
    /\ brLength = 0 /\ brSofar = 0 /\ rRet = NoRet
    /\ timeout2 = Uninit /\ usesTimeout2 = FALSE
    /\ start = Uninit /\ stop = Uninit /\ now = Uninit
    /\ ready = 0 /\ to = 0 /\ sofar = 0
    /\ pollUntil = 0 /\ selTimeout = 0 /\ selTimeout2 = 0 /\ selStop = 0
    /\ clock = 0 /\ eintrs = 0 /\ hardFault = FALSE
    /\ blocked = 0 /\ how = "none" /\ quietAtEntry = FALSE

NextCall ==
    \/ H_CheckReady
    \/ H_CheckReadyReturn
    \/ H_Tick
    \/ H_PeerClose
    \/ H_BlockRead
    \/ H_BlockReadLoop
    \/ RT_Enter
    \/ RT_Poll
    \/ RT_PollReturn
    \/ RT_Check
    \/ RT_Recv
    \/ Tick
    \/ W_Chunk
    \/ W_Write
    \/ H_Shutdown
    \/ H_Close

SpecCall == InitCall /\ [][NextCall]_vars

\* One call of get_local_socket_name, getmyIP or udp_request_lob_packet by a
\* thread that holds the UDP socket FirstFd, then close_socket on it.
InitName ==
    /\ winsock \in BOOLEAN /\ IoIdle /\ CodecIdle /\ HrIdle /\ CallIdle /\ RandIdle
    /\ CorkIdle
    /\ fds = NameTable /\ pending = 0 /\ sigpipeIgnored = FALSE
    /\ s_pc = "idle" /\ NIC_IP = "any" /\ sHasOptions = FALSE
    /\ sOptions = DefaultOptions /\ portPtrNull = FALSE
    /\ listen_portnum = 0 /\ port = 0 /\ lSock = Uninit /\ accept_sock = Uninit
    /\ paTimeout = 0 /\ paRet = NoRet /\ paHow = "none"
    /\ paPendingAtCall = FALSE /\ gaHow = "none"
    /\ c_pc = "idle" /\ addr = "localhost" /\ cHasOptions = FALSE
    /\ cOptions = DefaultOptions /\ cSock = Uninit /\ ctRet = FALSE
    /\ ctHow = "none" /\ ctOpened = FALSE
    /\ m_pc = "idle" /\ mSock = Uninit /\ stoOptions = DefaultOptions
    /\ stoFails = {} /\ stoAttempted = {} /\ stoApplied = {} /\ stoRet = TRUE
    /\ closeCalls = 0 /\ closeBadCalls = 0 /\ csArg = Uninit /\ csRet = NoRet
    /\ osCloses = 0 /\ badCloses = 0
    /\ nCall \in NameCalls /\ n_pc = "call"
    /\ max_length \in (IF nCall = "udp_request_lob_packet" THEN {0}
                       ELSE 0..MaxNameSize)
    /\ local_host = FreshBuffer(max_length)
    /\ nBufNull \in (IF nCall = "getmyIP" THEN BOOLEAN ELSE {FALSE})
    /\ nicIP \in (IF nCall = "getmyIP" THEN NicStrings
                  ELSE IF nCall = "udp_request_lob_packet"
                  THEN {NullString, CString(FormatHostAddr(<<1, 2, 3, 4>>)),
                        LongNicString}
                  ELSE {NullString})
    /\ remote_host \in (IF nCall = "get_local_socket_name"
                        THEN {"localhost", "unresolvable"} ELSE {"localhost"})
    /\ udp_sock \in (IF nCall = "get_local_socket_name" THEN {FirstFd}
                     ELSE {BAD_SOCKET, FirstFd})
    /\ nRet = NoRet /\ nHow = "none" /\ nAddr = InaddrAny

NextName ==
    \/ N_GetLocalSocketName
    \/ N_GetMyIP
    \/ N_UdpRequestLobPacket
    \/ N_Close

SpecName == InitName /\ [][NextName]_vars

\* A thread holds the connected TCP socket FirstFd and calls
\* cork_tcp_socket and uncork_tcp_socket on it, reads and writes, and
\* closes it.
CorkTable(opts) ==
    [f \in Fds |-> IF f = FirstFd
                   THEN [state |-> "connected", sock |-> "accepted",
                         port |-> ReqPort, opts |-> opts]
                   ELSE FreeFd]

InitCork ==
    /\ winsock \in BOOLEAN /\ apple \in BOOLEAN /\ ~(winsock /\ apple)
    /\ IoIdle /\ CodecIdle /\ HrIdle /\ CallIdle /\ RandIdle /\ NameIdle
    /\ fds \in {CorkTable({}), CorkTable({"SO_KEEPALIVE", "TCP_NODELAY"})}
    /\ pending = 0 /\ sigpipeIgnored = FALSE
    /\ s_pc = "idle" /\ NIC_IP = "any" /\ sHasOptions = FALSE
    /\ sOptions = DefaultOptions /\ portPtrNull = FALSE
    /\ listen_portnum = 0 /\ port = 0 /\ lSock = Uninit /\ accept_sock = Uninit
    /\ paTimeout = 0 /\ paRet = NoRet /\ paHow = "none"
    /\ paPendingAtCall = FALSE /\ gaHow = "none"
    /\ c_pc = "idle" /\ addr = "localhost" /\ cHasOptions = FALSE
    /\ cOptions = DefaultOptions /\ cSock = Uninit /\ ctRet = FALSE
    /\ ctHow = "none" /\ ctOpened = FALSE
    /\ m_pc = "idle" /\ mSock = Uninit /\ stoOptions = DefaultOptions
    /\ stoFails = {} /\ stoAttempted = {} /\ stoApplied = {} /\ stoRet = TRUE
    /\ closeCalls = 0 /\ closeBadCalls = 0 /\ csArg = Uninit /\ csRet = NoRet
    /\ osCloses = 0 /\ badCloses = 0
    /\ ck_pc = "start" /\ ckSock \in {BAD_SOCKET, FirstFd}
    /\ ckRet = FALSE /\ ckSet = FALSE /\ ckCalls = 0 /\ ckCorkRet = "none"
    /\ ckIo = 0 /\ ckIoRet = NoRet /\ ckLast = "none" /\ ckBefore = fds

NextCork ==
    \/ CK_Cork
    \/ CK_Uncork
    \/ CK_Io
    \/ CK_Close

SpecCork == InitCork /\ [][NextCork]_vars

\* The first thread calls genHexadecimalString twice with the same len and
\* the same non-empty seed; the other threads call any of the generators
\* once, or not at all.
InitRand ==
    /\ winsock = FALSE /\ IoIdle /\ SockIdle /\ CodecIdle /\ HrIdle /\ CallIdle
    /\ NameIdle /\ CorkIdle
    /\ rngState = 1
    /\ rnFn \in [Threads -> Generators] /\ rnFn[1] = "genHexadecimalString"
    /\ rnLen \in [Threads -> 0..MaxIdLen]
    /\ rnSeed \in [Threads -> SeedStrings] /\ rnSeed[1] # ""
    /\ \A t \in Threads : rnFn[t] # "genHexadecimalString" => rnSeed[t] = ""
    /\ rnCallsLeft \in [Threads -> 0..2] /\ rnCallsLeft[1] = 2
    /\ \A t \in Threads \ {1} : rnCallsLeft[t] <= 1
    /\ \A t \in Threads \ {1} :
         rnCallsLeft[t] = 0 =>
           (rnFn[t] = "genHexadecimalString" /\ rnLen[t] = 0 /\ rnSeed[t] = "")
    /\ rn_pc = [t \in Threads |-> IF rnCallsLeft[t] > 0 THEN "call" ELSE "done"]
    /\ rnStr = [t \in Threads |-> <<>>]
    /\ rnResults = [t \in Threads |-> <<>>]
    /\ rnAlone = [t \in Threads |-> TRUE]

NextRand ==
    \/ \E t \in Threads : RN_Seed(t)
    \/ \E t \in Threads : RN_Draw(t)
    \/ \E t \in Threads : RN_Return(t)

SpecRand == InitRand /\ [][NextRand]_vars

\* ================================================================ claims
PeerSentAll == w_pc \in {"done", "closed"} /\ wResult = wBytes
TimedDone == mode = "timed" /\ r_pc = "done"
Received == Cardinality({j \in 1..rBytes : buf[j] # Uninit})

\* C1: for every length and chunk sizes <= length, writing length bytes in
\* chunks with noint_block_write and reading them in chunks with
\* noint_block_read delivers exactly length bytes, identical and in order,
\* however the OS splits or interrupts the individual calls: at every moment
\* each byte received so far is the byte the writer put at that offset, and
\* when both harnesses have returned with no hard OS error both report
\* length and the whole buffer matches the pattern.
C1_RoundTrip ==
    mode = "block" =>
      /\ \A j \in 1..rBytes : buf[j] \in {Uninit, Pattern(j - 1)}
      /\ (PeerSentAll /\ r_pc = "done" /\ ~hardFault /\ wBytes = rBytes) =>
            /\ wResult = wBytes
            /\ rResult = rBytes
            /\ \A j \in 1..rBytes : buf[j] = Pattern(j - 1)

C1_Witness ==
    /\ mode = "block" /\ r_pc = "done" /\ PeerSentAll /\ ~hardFault
    /\ wBytes = MaxLen /\ rBytes = MaxLen /\ wChunk = 2 /\ rChunk = 2
    /\ eintrs > 0
    /\ rResult = MaxLen /\ wResult = MaxLen

C3_PartialReadReturnsCount ==
    (/\ mode = "block" /\ r_pc = "done" /\ rChunk = rBytes
     /\ PeerSentAll /\ peerClosed /\ ~hardFault
     /\ 0 < wBytes /\ wBytes < rBytes)
      => rRet = wBytes

\* C4 (as claimed): when the peer has sent exactly K bytes, 0 < K < length,
\* before the call and then stays open and silent, noint_block_read_timeout
\* with a finite non-zero duration returns exactly K (not -1), has consumed
\* exactly those K bytes, and has not blocked longer than the duration.
\* (Read in the claim's favour: the stop time had not already passed when
\* the clock was sampled with some of the K bytes still unread.)
C4_SilentPeerReturnsK ==
    (/\ TimedDone /\ timeout # 0 /\ quietAtEntry
     /\ ~peerClosed /\ ~hardFault
     /\ 0 < wBytes /\ wBytes < rBytes
     /\ ~(how = "expired" /\ sofar < wBytes))
      => (rRet = wBytes /\ chan = <<>> /\ blocked <= timeout)

\* C5: in noint_block_read_timeout a recv that returns 0 bytes after the
\* poll reported readiness makes the call return -1, whatever number of
\* bytes was accumulated before it.
C5_RecvZeroIsError ==
    (mode = "timed" /\ how \in {"eof", "eof_ignored"})
      => (r_pc = "done" /\ rRet = -1)

C5_Witness ==
    /\ TimedDone /\ how = "eof" /\ timeout # 0
    /\ peerClosed /\ PeerSentAll
    /\ sofar > 0 /\ sofar = wBytes /\ wBytes < rBytes
    /\ rRet = -1

\* C6 (as claimed): on a connection closed by the peer after K > 0 bytes,
\* noint_block_read_timeout reports K when end of stream is observed on
\* readiness; it reports an error only when nothing was accumulated.
C6_EofReportsCount ==
    (TimedDone /\ how = "eof")
      => (IF sofar > 0 THEN rRet = sofar ELSE rRet = -1)

\* C6 (amended): on a connection closed by the peer after K bytes,
\* noint_block_read_timeout returns -1 whenever end of stream is observed on
\* readiness, with or without bytes accumulated; a non-negative count is
\* returned only by a call that did not observe end of stream, and it is at
\* most the number of bytes received from the peer.
C6_EofIsErrorCountOnlyWithoutEof ==
    TimedDone =>
      /\ how = "eof" => rRet = -1
      /\ rRet >= 0 => /\ how \in {"zero_poll", "expired", "not_ready",
                                  "full", "recv_fail"}
                      /\ rRet <= Received

C6_Witness ==
    /\ TimedDone /\ how = "eof" /\ peerClosed /\ PeerSentAll
    /\ wBytes > 0 /\ sofar = wBytes /\ rRet = -1 /\ eintrs = 0 /\ ~hardFault

\* C7 (as claimed): noint_block_read_timeout called with a zero duration
\* {0,0} on a valid handle with no bytes available (and the peer still
\* connected) polls once and returns 0, not -1.
C7_ZeroDurationNoBytes ==
    (/\ TimedDone /\ timeout = 0
     /\ wBytes = 0 /\ ~peerClosed /\ ~hardFault)
      => rRet = 0

\* C8 (as claimed): with a finite non-zero duration, a successful return
\* smaller than length happens only after the stop time has passed or
\* after a poll with exactly zero remaining time found nothing: a poll
\* that reports not-ready before the stop time is followed by another poll,
\* not by a return.  (Stated for calls no system call of which was
\* interrupted or failed.)
C8_NotReadyPollsAgain ==
    (/\ TimedDone /\ timeout # 0 /\ eintrs = 0 /\ ~hardFault
     /\ rRet >= 0 /\ rRet < rBytes)
      => \/ TimevalGreater(now, stop)
         \/ (to = 0 /\ ready = 0)

\* C9: with a finite non-zero duration the stop time is fixed once as
\* start + duration; the wait handed to each poll/select is the duration at
\* first and stop - now (now being the latest sample that found the stop
\* time not passed) afterwards, so it never exceeds the duration and is
\* never reset to it; noint_select never waits beyond its own stop time;
\* and the total time spent blocked is at most the duration.
C9_DeadlineFixed ==
    (mode = "timed" /\ timeout # 0 /\ r_pc # "enter") =>
      /\ stop = TimevalSum(start, timeout)
      /\ timeout2 >= 0 /\ timeout2 <= timeout
      /\ r_pc \in {"poll", "inpoll", "recv"} =>
            timeout2 = (IF now = Uninit THEN timeout ELSE TimevalDiff(stop, now))
      /\ r_pc = "inpoll" => (to = timeout2 /\ pollUntil <= clock + to)
      /\ (r_pc = "inpoll" /\ winsock) =>
            (selTimeout = to /\ (to # 0 => pollUntil <= selStop))
      /\ blocked <= timeout

C9_Witness ==
    /\ mode = "timed" /\ r_pc = "inpoll" /\ timeout # 0
    /\ sofar > 0 /\ blocked > 0
    /\ timeout2 > 0 /\ timeout2 < timeout /\ to = timeout2

\* C10: in noint_block_write and noint_block_read an OS call that fails
\* with EINTR changes nothing but the number of interruptions: sofar, the
\* buffers, the stream, the position in the loop and the results stay as
\* they were, so a call returns what the run without the interruptions
\* returns and transfers the same bytes at the same offsets.
C10_EintrIsInvisible ==
    [][(mode = "block" /\ eintrs' # eintrs) =>
          UNCHANGED <<wvars, chan, peerClosed, rblock, r_pc, buf, rRet, how>>]_vars

C10_Witness ==
    /\ mode = "block" /\ eintrs = MaxEintr
    /\ r_pc = "read" /\ brSofar > 0
    /\ w_pc = "write" /\ bwSofar > 0

\* C11 (as claimed): an interruption (EINTR) of the poll/select or the recv
\* inside noint_block_read_timeout is never surfaced as -1: a call during
\* which the OS reported no hard error and the peer did not close does not
\* return -1.
C11_EintrNeverSurfaced ==
    (TimedDone /\ ~hardFault /\ ~peerClosed) => rRet >= 0

\* C12: noint_block_write returns length, 0 or -1 and nothing else: length
\* exactly when the last OS write completed the buffer (every byte was
\* accepted), 0 exactly when the last OS write reported a zero-byte
\* completion (whatever was accepted before), -1 exactly when it failed
\* with an error other than EINTR; while none of these has happened the
\* call has not returned.  (Stated of every step of noint_block_write.)
C12_WriteAllZeroOrError ==
    [][W_Write =>
         LET osret == bwSofar' - bwSofar
             interrupted == eintrs' # eintrs
             returned == w_pc' # "write"
         IN /\ returned => bwRet' \in {bwLength, 0, -1}
            /\ (returned /\ bwRet' = bwLength) <=>
                  (osret > 0 /\ bwSofar' = bwLength
                     /\ Len(chan') = Len(chan) + osret)
            /\ (returned /\ bwRet' = 0) <=> (osret = 0 /\ ~interrupted)
            /\ (returned /\ bwRet' = -1) <=> osret = -1]_vars

C12_Witness ==
    /\ w_pc = "done" /\ bwRet = 0
    /\ bwSofar > 0 /\ bwSofar < bwLength /\ eintrs > 0

\* The options set_tcp_socket_options attempts for the given TCPOptions.
WantedOptions(options) ==
    {n \in OptionNames : OptionWanted(winsock, options, n)}
\* The descriptors occupied by socket who.
HeldBy(who) == {f \in Fds : fds[f].sock = who}

\* C13: every close_socket(BAD_SOCKET) returns -100, issues no OS close and
\* leaves the descriptor table as it was; close_socket on a handle whose
\* descriptor is open (as returned by open_socket) returns 0, with one OS
\* close that frees the descriptor.
C13_CloseBadSocket ==
    [][closeCalls' # closeCalls =>
         IF csArg' = BAD_SOCKET
         THEN csRet' = InvalidStatus /\ osCloses' = osCloses
                /\ UNCHANGED <<fds, pending, sigpipeIgnored, badCloses>>
         ELSE (csArg' \in Fds /\ fds[csArg'].state # "free") =>
                 /\ csRet' = 0
                 /\ osCloses' = osCloses + 1
                 /\ fds'[csArg'] = FreeFd]_vars

C13_Witness ==
    /\ closeBadCalls = MaxCloseBad /\ m_pc = "done"
    /\ csArg = mSock /\ mSock \in Fds /\ csRet = 0 /\ osCloses = 1
    /\ closeCalls = MaxCloseBad + 1

\* C14 (as claimed): whenever connect_tcp_to returns false after having
\* opened a socket, that socket has been closed before the return.
C14_FailedConnectClosesSocket ==
    (c_pc = "close" /\ ~ctRet /\ ctOpened) => HeldBy("client") = {}

\* C15 (as claimed): after connect_tcp_to returns false the value left in
\* *s is BAD_SOCKET or the still-open handle of the socket it opened, so the
\* caller's close_socket(*s) is safe; and no OS close ever hits a descriptor
\* that does not hold the caller's own open socket (each socket is closed
\* exactly once).
C15_FailedConnectLeavesSafeHandle ==
    /\ (c_pc = "close" /\ ~ctRet) =>
          (cSock = BAD_SOCKET \/ (cSock \in Fds /\ fds[cSock].sock = "client"))
    /\ badCloses = 0

\* C16: get_a_TCP_socket with a null port pointer returns BAD_SOCKET without
\* touching the descriptor table; otherwise it returns either BAD_SOCKET,
\* with the table as it was before the call (every socket it opened is
\* closed) and *listen_portnum unchanged, or a handle that is bound and
\* listening, carries every option the supplied TCPOptions ask for, with
\* *listen_portnum the port it is bound to.
C16_ListenAllOrNothing ==
    [][(s_pc = "listen" /\ s_pc' # "listen") =>
         /\ portPtrNull => (lSock' = BAD_SOCKET /\ fds' = fds)
         /\ lSock' = BAD_SOCKET =>
               (fds' = fds /\ listen_portnum' = listen_portnum)
         /\ lSock' # BAD_SOCKET =>
               /\ lSock' \in Fds
               /\ fds'[lSock'].state = "listening"
               /\ fds'[lSock'].sock = "listen"
               /\ sHasOptions => WantedOptions(sOptions) \subseteq fds'[lSock'].opts
               /\ listen_portnum' = fds'[lSock'].port
               /\ HeldBy("listen")' = {lSock'}]_vars

C16_Witness ==
    /\ s_pc = "accept" /\ gaHow = "options" /\ lSock = BAD_SOCKET
    /\ sHasOptions /\ listen_portnum = ReqPort /\ c_pc = "connect"

\* C17: open_socket returns BAD_SOCKET when socket(), the host lookup,
\* bind() or getsockname() fails (an unresolvable address always fails), and
\* then the descriptor table is as it was before the call (the socket it
\* created is closed) and *portno holds the value passed in.
C17_OpenSocketFailureClean ==
    [][(s_pc = "listen" /\ s_pc' # "listen" /\ ~portPtrNull) =>
         /\ NIC_IP = "unresolvable" => gaHow' \in {"socket", "resolve"}
         /\ gaHow' \in {"socket", "resolve", "bind", "getsockname"} =>
               /\ lSock' = BAD_SOCKET
               /\ fds' = fds
               /\ port' = ToUShort(listen_portnum)]_vars

C17_Witness ==
    /\ s_pc = "accept" /\ gaHow = "getsockname" /\ lSock = BAD_SOCKET
    /\ port = ReqPort /\ \A f \in Fds : fds[f].sock # "listen"

\* C18: on success open_socket leaves in *portno the port the socket is
\* bound to: the requested port when it was not 0, an OS-assigned non-zero
\* port when it was; get_a_TCP_socket reports the same port through
\* *listen_portnum; and a peer that connects to the reported port, with no
\* OS failure, is connected and queued on this listening socket.
C18_ReportedPortIsBound ==
    [][/\ (s_pc = "listen" /\ s_pc' # "listen" /\ gaHow' = "ok") =>
            /\ port' = fds'[lSock'].port
            /\ listen_portnum' = port'
            /\ listen_portnum # 0 => port' = listen_portnum
            /\ listen_portnum = 0 => (port' # 0 /\ port' \in EphemeralPorts)
       /\ (c_pc = "connect" /\ c_pc' # "connect" /\ gaHow = "ok"
             /\ lSock \in Fds /\ fds[lSock].state = "listening"
             /\ addr = "localhost" /\ hardFault' = hardFault) =>
            /\ ctRet'
            /\ pending' = pending + 1
            /\ fds'[cSock'].state = "connected"]_vars

C18_Witness ==
    /\ gaHow = "ok" /\ listen_portnum = EphemeralPort /\ port = EphemeralPort
    /\ lSock \in Fds /\ fds[lSock].port = EphemeralPort
    /\ ctRet /\ ctHow = "ok" /\ pending = 1

\* C19 (as claimed): poll_for_accept returns 1 with the accepted handle in
\* *accept_sock, or 0 with *accept_sock untouched, or -1; it returns -1 only
\* for BAD_SOCKET, an error reported by the poll, or a failed accept; and a
\* connection already waiting at the call is accepted without blocking
\* unless the OS reports such an error.
C19_PollForAccept ==
    (paRet # NoRet) =>
      /\ paRet \in {1, 0, -1}
      /\ paRet = 1 => (paHow = "accepted" /\ accept_sock \in Fds)
      /\ paRet = 0 => (paHow = "timeout" /\ accept_sock = Uninit)
      /\ paRet = -1 => paHow \in {"bad_socket", "poll_error", "accept_fail"}
      /\ (paPendingAtCall /\ paHow \notin {"poll_error", "accept_fail"}) =>
            (paRet = 1 /\ blocked = 0)

\* C20: set_tcp_socket_options attempts exactly the options its argument
\* asks for (keepCount, keepIdle, keepInterval only when non-negative),
\* whichever of them fail; it returns true iff none of the attempted ones
\* failed; and the ones that succeeded stay in force on the socket.
C20_OptionsBestEffort ==
    (m_pc \in {"close", "done"} /\ mSock # BAD_SOCKET) =>
      /\ stoAttempted = WantedOptions(stoOptions)
      /\ stoApplied = stoAttempted \ stoFails
      /\ stoRet <=> (stoAttempted \cap stoFails = {})
      /\ m_pc = "close" => fds[mSock].opts = stoApplied

C20_Witness ==
    /\ m_pc = "close" /\ ~stoRet
    /\ "TCP_KEEPCNT" \in stoFails
    /\ "TCP_KEEPIDLE" \notin stoAttempted
    /\ {"TCP_KEEPINTVL", "TCP_NODELAY"} \subseteq fds[mSock].opts

\* ----------------------------------------------------------- the codec
\* The byte of significance n (0 = least significant) of the value of type k
\* that lies in memory as d on host h.  On a mixed-endian host the two words
\* of a double are stored most significant word first, each word little-endian.
ByteOfSignificance(h, k, d, n) ==
    IF h = "big" THEN d[SizeofDouble - n]
    ELSE IF h = "mixed" /\ k = "double"
         THEN (IF n < SizeofDouble \div 2 THEN d[SizeofDouble \div 2 + n + 1]
               ELSE d[n - SizeofDouble \div 2 + 1])
         ELSE d[n + 1]

\* The big-endian layout of the same value: most significant byte first.
BigEndianLayout(h, k, d) ==
    [i \in 1..SizeofDouble |-> ByteOfSignificance(h, k, d, SizeofDouble - i)]

\* Byte i of r is byte 7-i of d, counting from 0: the plain 8-byte reversal.
IsReversal(r, d) == \A i \in 0..(SizeofDouble - 1) : r[i + 1] = d[(7 - i) + 1]

\* C21: hton and ntoh are the same transform and their own inverse: after
\* one conversion, whichever was called, the value is hton of the input; after
\* any two conversions (hton/hton, hton/ntoh, ntoh/hton, ntoh/ntoh) the value
\* is the input again; for every pattern, both overloads, every host.
C21_HtonNtohInvolution ==
    /\ Len(kOps) = 1 => kVal = Hton(overload, host, kIn)
    /\ Len(kOps) = 2 => kVal = kIn

\* A pattern that hton changes on a mixed-endian host has gone through
\* hton and then ntoh of the double overload and is back.
C21_Witness ==
    /\ kOps = <<"hton", "ntoh">> /\ host = "mixed" /\ overload = "double"
    /\ HtonDouble(host, kIn) # kIn /\ kVal = kIn

\* C22: on a little-endian host hton (either overload) returns the input
\* with its 8 bytes reversed, on a big-endian host the input unchanged; in both
\* cases the result is the big-endian layout of the value.
C22_LittleReversesBigKeeps ==
    (kOps = <<"hton">> /\ host \in {"little", "big"}) =>
        /\ host = "little" => IsReversal(kVal, kIn)
        /\ host = "big" => kVal = kIn
        /\ kVal = BigEndianLayout(host, overload, kIn)

\* hton(int64) on a little-endian host of a pattern whose first and last
\* bytes differ.
C22_Witness ==
    /\ kOps = <<"hton">> /\ host = "little" /\ overload = "int64"
    /\ kIn[1] # kIn[SizeofDouble] /\ kVal[1] = kIn[SizeofDouble]

\* C23: on a mixed-endian host the word swap after the byte swap is applied
\* by hton(double) only; hton(int64) there is the plain 8-byte reversal, the
\* big-endian layout of the integer.
C23_WordSwapForDoubleOnly ==
    (kOps = <<"hton">> /\ host = "mixed") =>
        /\ overload = "double" =>
              /\ kVal = WordSwap(ByteSwap(kIn))
              /\ kVal = BigEndianLayout(host, overload, kIn)
        /\ overload = "int64" =>
              /\ IsReversal(kVal, kIn)
              /\ kVal = BigEndianLayout(host, overload, kIn)

\* ------------------------------------------------- ACL_gettimeofday
\* C24: however the threads interleave, the offset is computed exactly once
\* and inside hr_offset_mutex, hr_offset is stored once and never changed,
\* and a thread that has applied hr_offset applied the stored offset, never
\* the value hr_offset had before the store.
C24_OffsetOnceBeforeUse ==
    /\ hrComputes <= 1 /\ hrStores <= 1 /\ ~hrOutsideLock
    /\ (\E t \in Threads : g_pc[t] = "done") => hrComputes = 1
    /\ \A t \in Threads :
          g_pc[t] = "done" => (gAppliedStored[t] /\ gApplied[t] \in Offsets)

\* ----------------------------------------- one call on a connected socket
ReadyReturned == hCall = "check_ready" /\ h_pc = "after"

\* C25: check_ready_to_read_timeout returns -1 for BAD_SOCKET without an OS
\* call; on a valid handle it returns -1 exactly when the OS reported an
\* error, hang-up or invalid condition (readable or not), 1 exactly when the
\* handle was readable without one, and 0 exactly when the timeout ran out
\* first, not before it has elapsed; with timeout 0 it does not block; with a
\* negative timeout it never returns 0.
C25_CheckReadyResult ==
    /\ (ReadyReturned /\ infile = BAD_SOCKET) => (hRet = -1 /\ ~osTouched)
    /\ (ReadyReturned /\ infile # BAD_SOCKET) =>
          /\ hRet = -1 <=> hWhy = "condition"
          /\ hRet = 1 <=> hWhy = "readable"
          /\ hRet = 1 => hReadable
          /\ hRet = 0 <=> hWhy = "timeout"
          /\ hRet = 0 => (~hReadable /\ timeout >= 0
                            /\ clock >= hEntry + timeout)
          /\ timeout = 0 => blocked = 0
          /\ timeout < 0 => hRet # 0

\* C26: noint_block_read and noint_block_read_timeout given length 0 and a
\* valid handle return 0 at once, without an OS call and without waiting;
\* noint_block_read_timeout given BAD_SOCKET returns -1 at once for any
\* length.
C26_ZeroLengthAndBadSocket ==
    /\ (hCall = "block_read" /\ h_pc # "call" /\ infile # BAD_SOCKET
          /\ rBytes = 0)
         => (hRet = 0 /\ ~osTouched /\ blocked = 0 /\ eintrs = 0)
    /\ (hCall = "timed_read" /\ r_pc # "enter" /\ infile # BAD_SOCKET
          /\ rBytes = 0)
         => (r_pc = "done" /\ rRet = 0 /\ ~osTouched /\ blocked = 0
               /\ eintrs = 0 /\ clock = 0)
    /\ (hCall = "timed_read" /\ r_pc # "enter" /\ infile = BAD_SOCKET)
         => (r_pc = "done" /\ rRet = -1 /\ ~osTouched /\ blocked = 0)

\* A timed read of length 0 has returned 0 with a byte waiting in the stream.
C26_Witness ==
    /\ hCall = "timed_read" /\ r_pc = "done" /\ infile = FirstFd /\ rBytes = 0
    /\ rRet = 0 /\ chan # <<>>

\* C27: after shutdown_socket on a valid handle both directions are shut
\* down and the descriptor is still open and the caller's; the close_socket
\* that follows closes it and returns 0; shutdown_socket(BAD_SOCKET) returns
\* -100 and issues no OS call.
C27_ShutdownKeepsHandle ==
    /\ (h_pc = "shut" /\ infile # BAD_SOCKET)
         => (infile \in hShut /\ osShutdowns = 1 /\ osCloses = 0
               /\ hShutRet # InvalidStatus
               /\ fds[infile].state = "connected"
               /\ fds[infile].sock = "accepted")
    /\ (h_pc = "closed" /\ infile # BAD_SOCKET /\ infile \in hShut)
         => (csRet = 0 /\ osCloses = 1 /\ badCloses = 0
               /\ fds[infile].state = "free")
    /\ (h_pc \in {"shut", "closed"} /\ infile = BAD_SOCKET /\ hShutRet # NoRet)
         => (hShutRet = InvalidStatus /\ osShutdowns = 0 /\ hShut = {})

\* The handle was shut down and then closed, and the close returned 0.
C27_Witness ==
    /\ h_pc = "closed" /\ infile = FirstFd /\ FirstFd \in hShut
    /\ hShutRet = 0 /\ csRet = 0

\* C28: from the call of noint_block_write, noint_block_read,
\* noint_block_read_timeout or check_ready_to_read_timeout to its return,
\* whatever it returns, the handle is open, connected, configured as before,
\* not shut down and the caller's; the caller's close_socket afterwards
\* closes that socket and returns 0.
C28_IoLeavesHandle ==
    /\ h_pc \in {"call", "inwait", "read", "after"}
         => (/\ fds[FirstFd] = [state |-> "connected", sock |-> "accepted",
                                port |-> ReqPort, opts |-> {}]
             /\ hShut = {} /\ osCloses = 0 /\ osShutdowns = 0)
    /\ (h_pc = "closed" /\ infile = FirstFd) => (csRet = 0 /\ badCloses = 0)

\* noint_block_read has failed and the handle is still open.
C28_Witness ==
    /\ hCall = "block_read" /\ h_pc = "after" /\ infile = FirstFd /\ hRet = -1
    /\ fds[FirstFd].state = "connected"

\* ------------------------------------------------- the timed read, again
\* C29: with a non-zero duration, a re-sampling of the clock after the poll
\* that finds the stop time passed ends the call there: it returns the count
\* accumulated so far, issues no recv even when the poll reported the handle
\* ready, and leaves the stream and the buffer as they were.
C29_ExpiredReturnsWithoutRecv ==
    [][(RT_Check /\ usesTimeout2 /\ clock > stop)
         => (r_pc' = "done" /\ rRet' = sofar /\ sofar' = sofar
               /\ chan' = chan /\ buf' = buf)]_vars

\* The poll reported ready, the stop time had passed at the re-sampling, and
\* the call returned with the byte still in the stream.
C29_Witness ==
    /\ TimedDone /\ how = "expired" /\ usesTimeout2 /\ ready = 1
    /\ now > stop /\ chan # <<>> /\ rRet = sofar

\* C30: in noint_block_read_timeout sofar is within 0..length at every loop
\* head; a recv is issued at buffer offset sofar for at most length - sofar
\* bytes and what it delivers is what leaves the stream; the call returns
\* length once that many bytes were stored; every non-negative value
\* returned is within 0..length and is the number of bytes taken from the
\* stream.
C30_SofarBounds ==
    [][/\ (mode' = "timed" /\ r_pc' = "poll")
            => (0 <= sofar' /\ sofar' <= rBytes')
       /\ RT_Recv =>
            LET n == Len(chan) - Len(chan')
            IN /\ 0 <= n /\ n <= rBytes - sofar
               /\ \A j \in 1..rBytes :
                    buf'[j] = IF sofar < j /\ j <= sofar + n
                              THEN chan[j - sofar] ELSE buf[j]
       /\ (TimedDone' /\ Received' = rBytes') => rRet' = rBytes'
       /\ (TimedDone' /\ rRet' >= 0)
            => (rRet' <= rBytes' /\ rRet' = Received')]_vars

\* C31: a recv that fails inside noint_block_read_timeout makes the call
\* return -1 whatever was accumulated before it, and the value returned is
\* the one the other build variant returns for the same OS results.
C31_RecvErrorReturnsMinusOne ==
    (TimedDone /\ how = "recv_fail")
      => (/\ rRet = -1
          /\ TimedReturn(TRUE, -1, sofar) = TimedReturn(FALSE, -1, sofar))

\* C32: noint_block_read_timeout with a zero duration, entered when the K >= 1
\* bytes the peer sends are all waiting (the peer then stays open and silent,
\* no system call is interrupted or fails), returns min(K, length) and has
\* not blocked.
C32_ZeroDurationReadsAvailable ==
    (/\ TimedDone /\ timeout = 0 /\ quietAtEntry /\ wBytes >= 1
     /\ ~peerClosed /\ ~hardFault /\ eintrs = 0)
      => (rRet = Min(wBytes, rBytes) /\ blocked = 0)

\* C33: under a scheduler that lets the reading thread run and the clock
\* advance, every call of noint_block_read_timeout with a finite duration
\* returns, with a count or -1, whatever the peer does.
C33_TimedReadReturns == <>(TimedDone /\ rRet >= -1 /\ rRet <= rBytes)

\* A call with a non-zero duration has returned after having waited.
C33_Witness == TimedDone /\ timeout # 0 /\ blocked > 0 /\ rRet # NoRet


\* C34: in noint_block_write and noint_block_read the count sofar is within
\* 0..length at every loop head and is below length there, so that no OS
\* call is issued once sofar equals length; an iteration that goes round
\* again has raised sofar by exactly the bytes the OS transferred, or left
\* it alone after an interruption; and the bytes of a call go from
\* buffer + sofar (write) or to buffer + sofar (read), at most
\* length - sofar of them.
BlockWriteAtLoopHead == w_pc = "write"
BlockReadAtLoopHead == mode = "block" /\ r_pc = "read"

C34_WriteIteration ==
    (BlockWriteAtLoopHead /\ W_Write) =>
      LET k == Len(chan') - Len(chan)
      IN /\ k >= 0 /\ k <= bwLength - bwSofar
         /\ chan' = chan \o Slice(wSofar + bwSofar, k)
         /\ BlockWriteAtLoopHead' /\ wSofar' = wSofar
              => (bwSofar' = bwSofar + k /\ (k = 0 => eintrs' = eintrs + 1))
         /\ k > 0 => bwSofar' = bwSofar + k

C34_ReadIteration ==
    (BlockReadAtLoopHead /\ R_Read) =>
      LET k == Len(chan) - Len(chan')
      IN /\ k >= 0 /\ k <= brLength - brSofar
         /\ \A j \in 1..rBytes :
              buf'[j] = IF j > rSofar + brSofar /\ j <= rSofar + brSofar + k
                        THEN chan[j - (rSofar + brSofar)] ELSE buf[j]
         /\ BlockReadAtLoopHead' /\ rSofar' = rSofar
              => (brSofar' = brSofar + k /\ (k = 0 => eintrs' = eintrs + 1))
         /\ k > 0 => brSofar' = brSofar + k

C34_LoopHeads ==
    /\ BlockWriteAtLoopHead => (0 <= bwSofar /\ bwSofar < bwLength)
    /\ BlockReadAtLoopHead => (0 <= brSofar /\ brSofar < brLength)

C34_SofarInvariant ==
    [][C34_WriteIteration /\ C34_ReadIteration /\ C34_LoopHeads']_vars

C34_Witness ==
    /\ BlockWriteAtLoopHead /\ bwSofar >= 1
    /\ BlockReadAtLoopHead /\ brSofar >= 1
    /\ eintrs >= 1


\* ------------------------------------------------- the local-address calls
LocalNameReturned == nCall = "get_local_socket_name" /\ n_pc = "returned"
AssociationFailed == nHow \in {"no_association", "no_association_too_long"}
AnyAddressString == <<"0", ".", "0", ".", "0", ".", "0">>
\* The caller's buffer starts with the string s and its terminator is stored
\* (in the buffer or, when the buffer has no room for it, past its end).
BufferHolds(b, s) ==
    /\ Len(b.cells) >= Len(s)
    /\ SubSeq(b.cells, 1, Len(s)) = s
    /\ IF Len(b.cells) > Len(s) THEN b.cells[Len(s) + 1] = NUL
       ELSE b.overrun = 1
BufferUntouched(b) ==
    b.overrun = 0 /\ \A j \in 1..Len(b.cells) : b.cells[j] = UntouchedCell

\* What holds on every return of get_local_socket_name: the descriptor
\* table is as it was before the call, so the throwaway socket is closed and
\* no other is; when the association was made the throwaway socket was
\* closed by exactly one OS call; on success the value returned is the
\* length of the dotted address the OS chose and the buffer holds it.
LocalNameClosesAndReports ==
    /\ fds = NameTable
    /\ ~AssociationFailed => (osCloses = 1 /\ badCloses = 0)
    /\ nHow = "ok" => (/\ nRet = Len(FormatHostAddr(nAddr))
                       /\ nAddr \in LocalAddresses
                       /\ BufferHolds(local_host, FormatHostAddr(nAddr)))
    /\ nHow \in {"getsockname", "too_long"} => nRet = -1

\* C35 as stated: get_local_socket_name closes the throwaway socket on every
\* return path and returns the endpoint the OS chose, and when the
\* association cannot be made it writes "0.0.0.0" and returns a positive
\* length.
C35_LocalNameAsStated ==
    LocalNameReturned =>
      /\ LocalNameClosesAndReports
      /\ AssociationFailed => (/\ nRet > 0
                               /\ BufferHolds(local_host, AnyAddressString))

\* C35, amended: the same, except that without an association "0.0.0.0" is
\* written and its length 7 returned only when max_length is at least 7;
\* with a smaller max_length the call returns -1 and writes nothing.
C35_LocalName ==
    LocalNameReturned =>
      /\ LocalNameClosesAndReports
      /\ (AssociationFailed /\ max_length >= Len(AnyAddressString))
           => (/\ nRet = Len(AnyAddressString)
               /\ BufferHolds(local_host, AnyAddressString))
      /\ (AssociationFailed /\ max_length < Len(AnyAddressString))
           => (nRet = -1 /\ BufferUntouched(local_host))

C35_Witness ==
    /\ LocalNameReturned /\ nHow = "no_association" /\ nRet = 7
    /\ remote_host = "unresolvable" /\ osCloses = 2


AddressCallReturned ==
    nCall \in {"get_local_socket_name", "getmyIP"} /\ n_pc \in {"returned", "closed"}
\* The call got as far as having an address string to hand back.
AddressStringMade ==
    nHow \in {"ok", "no_association", "no_association_too_long", "too_long",
              "nic", "socket", "host"}
AddressString ==
    IF nCall = "getmyIP" /\ nicIP.given THEN nicIP.s ELSE FormatHostAddr(nAddr)

\* C36: get_local_socket_name and getmyIP write no byte outside the
\* max_length / maxlen bytes of the caller's buffer, and when the address
\* string with its terminating NUL does not fit in them they return -1 and
\* leave the buffer as it was.
C36_OutputWithinMaximum ==
    AddressCallReturned =>
      /\ local_host.overrun = 0
      /\ (AddressStringMade /\ Len(AddressString) + 1 > max_length)
           => (nRet = -1 /\ BufferUntouched(local_host))


LobCalled == nCall = "udp_request_lob_packet" /\ udp_sock = FirstFd

\* C38: whatever udp_request_lob_packet returns, the caller's socket
\* udp_sock is still open when it returns, and the caller's close_socket
\* afterwards is the one and only OS close of that socket and succeeds.
C38_LobLeavesSocketOpen ==
    LobCalled =>
      /\ n_pc = "returned" => (nRet \in {0, -1} /\ fds = NameTable /\ osCloses = 0)
      /\ n_pc = "closed" => (osCloses = 1 /\ badCloses = 0 /\ csRet = 0)


\* ------------------------------------------------------- cork and uncork
CorkOrUncorkReturned == ckLast \in {"cork", "uncork"}
CorkedNow == Corked(fds, ckSock, CorkByNodelay(winsock, apple))

\* What holds of every cork_tcp_socket / uncork_tcp_socket call: FALSE for
\* BAD_SOCKET with no library or OS call made; otherwise TRUE exactly when
\* setsockopt was called and succeeded; every descriptor is in the state it
\* was in before the call and holds the same socket, so no handle was closed
\* or created; and every read or write made on the connected socket after
\* the calls, failed or not, succeeds.
CorkCallsKeepHandle ==
    /\ CorkOrUncorkReturned =>
         /\ ckSock = BAD_SOCKET => (~ckRet /\ ckCalls = 0 /\ fds = ckBefore)
         /\ ckSock # BAD_SOCKET => (ckRet = ckSet /\ ckCalls >= 1)
         /\ ~ckRet => fds = ckBefore
         /\ \A f \in Fds : /\ fds[f].state = ckBefore[f].state
                           /\ fds[f].sock = ckBefore[f].sock
                           /\ fds[f].port = ckBefore[f].port
    /\ (ckLast = "io" /\ ckSock = FirstFd) => ckIoRet = 1
    /\ (ckLast = "close" /\ ckSock = FirstFd) => (csRet = 0 /\ badCloses = 0)

CorkThenUncork == ck_pc = "uncorked" /\ ckCorkRet # "none" /\ ckSock = FirstFd

\* C37 as stated: the above, and cork followed by uncork leaves the cork
\* option cleared.
C37_CorkUncorkAsStated ==
    /\ CorkCallsKeepHandle
    /\ CorkThenUncork => ~CorkedNow

\* C37, amended: the above, and cork followed by an uncork that returns true
\* leaves the cork option cleared, while an uncork that returns false after
\* a cork that returned true leaves it set.
C37_CorkUncork ==
    /\ CorkCallsKeepHandle
    /\ (CorkThenUncork /\ ckRet) => ~CorkedNow
    /\ (CorkThenUncork /\ ~ckRet /\ ckCorkRet = "true") => CorkedNow

C37_Witness ==
    /\ CorkThenUncork /\ ckCorkRet = "false" /\ ckRet /\ ckLast = "io"
    /\ ckIo = MaxCorkIo /\ ~CorkedNow


\* ------------------------------------------------------- RandomIDGenerator
\* C39: the two calls genHexadecimalString(len, seed) of the first thread,
\* made with the same len and the same non-empty seed, return the same
\* string, whatever the other threads call in the meantime.
C39_SeededHexReproducible ==
    Len(rnResults[1]) = 2 => rnResults[1][1] = rnResults[1][2]

\* C40: every string a generator returns has exactly len characters, each
\* of them from the generator's own alphabet.
C40_ExactLengthAndAlphabet ==
    \A t \in Threads : \A i \in 1..Len(rnResults[t]) :
        /\ Len(rnResults[t][i]) = rnLen[t]
        /\ \A j \in 1..Len(rnResults[t][i]) :
             \E k \in 1..Len(Alphabet(rnFn[t])) :
                 rnResults[t][i][j] = Alphabet(rnFn[t])[k]

====
